---- MODULE Spec2Model ----
(***************************************************************************)
(* participants-id: the identifier lifecycle manager.                      *)
(*                                                                         *)
(* Three implementations share one storage layout:                         *)
(*   "ts_sync"  - class Participant       (participants-id.ts, synchronous)*)
(*   "ts_async" - class AsyncParticipant  (participants-id.ts)             *)
(*   "dart"     - class Participant       (participants_id.dart)           *)
(* A behaviour fixes one implementation and whether a validation function  *)
(* was passed to the constructor.  Calls run in slots (Procs); a call of   *)
(* an asynchronous implementation is cut at its awaits, and calls of       *)
(* different slots interleave at those points.  An await with no storage   *)
(* access between it and the entry or return of its method is not cut.     *)
(***************************************************************************)
EXTENDS Integers, Sequences, FiniteSets, TLC

\* ------------------------------------------------------------------ bounds
\* The clock reads 0 .. MaxClock milliseconds.
MaxClock == 1
\* Calls of the public methods started in one behaviour.
MaxCalls == 3
\* Rejections explored in calls that overlap: the validation function rejects
\* at most this often while another call is under way, a call joins one
\* under way only while that one has been rejected at most this often, and
\* later answers of the validation function are not steps of their own.
MaxOverlapRejects == 1

\* Program constant: private MAX_RETRY_VALIDATION = 10.
MAX_RETRY_VALIDATION == 10

Procs == {1, 2}
RandVals == {"r0", "r1"}
Impls == {"ts_sync", "ts_async", "dart"}

\* ------------------------------------------------------------------ values
\* Every value a variable can hold is a record, so that any two compare.
Null == [kind |-> "null"]
EmptyString == [kind |-> "string", chars |-> <<>>]
Exception == [kind |-> "exception"]
Uuid(ms, r) == [kind |-> "uuid", ts |-> ms, rand |-> r]
Timestamp(ms) == [kind |-> "time", ms |-> ms]
IsUuid(v) == v.kind = "uuid"
Bool(b) == [kind |-> "bool", val |-> b]
\* The values a caller passes to set_attribute.
Str(cs) == [kind |-> "string", chars |-> cs]
Num(n) == [kind |-> "number", n |-> n]
List(items) == [kind |-> "list", items |-> items]
Map(entries) == [kind |-> "map", entries |-> entries]
Entry(k, v) == [key |-> k, val |-> v]
\* JSON.parse throws SyntaxError
SyntaxError == [kind |-> "syntax_error"]

\* JavaScript truthiness of a `string | null`: null and "" are falsy.
Truthy(v) == v # Null /\ v # EmptyString

\* ------------------------------------------------------------------ strings
\* A string is the sequence of its pieces; "." is a piece of its own.
\* constructor: prefix: string = "participants_id"
DefaultPrefix == <<"participants_id">>

\* ------------------------------------------------------------------ storage
\* The key-value store is a function whose domain is the set of stored keys.
EmptyStorage == [k \in {} |-> Null]
getItem(s, k) == IF k \in DOMAIN s THEN s[k] ELSE Null
\* A store in which the first write of a key wins.
setItemIfAbsent(s, k, v) ==
    [x \in (DOMAIN s) \cup {k} |-> IF x \in DOMAIN s THEN s[x] ELSE v]
setItem(s, k, v) == [x \in (DOMAIN s) \cup {k} |-> IF x = k THEN v ELSE s[x]]
removeNothing(s, k) == s
removeItem(s, k) == [x \in (DOMAIN s) \ {k} |-> s[x]]
containsKey(s, k) == k \in DOMAIN s

VARIABLES
    impl,        \* which implementation this behaviour runs
    hasValidator,\* browser_id_validation_func / browserIdValidationFunc given
    storage,     \* localStorage / SharedPreferences
    now,         \* the latest reading of the clock, in milliseconds
    calls,       \* per slot: the call in progress or last completed
    ncalls,      \* calls started so far
    handed,      \* identifiers get_id has returned since the last delete step
    overlapRejects, \* rejections given so far while another call was under way
    lastDone,    \* slot of the call that completed last, no call started since
    lastDelete,  \* what the delete that completed last removed (until next call)
    env,         \* the environment of this behaviour: see WorkingEnv
    attrCall,    \* the attribute call made last, and the one before it
    attrByKey,   \* per storage key: the value set_attribute was last given
    attrByField, \* per <<app_name, field>>: the value set_attribute was last given
    generated,   \* the text the identifier generator returned last
    generatedAt  \* the reading of Date.now() the generator took for it

attrVars == <<attrCall, attrByKey, attrByField, generated, generatedAt>>

vars == <<impl, hasValidator, storage, now, calls, ncalls, handed, overlapRejects,
          lastDone, lastDelete, env, attrCall, attrByKey, attrByField, generated,
          generatedAt>>

\* available: window.localStorage exists (the constructor found a storage)
\* failing:   a write or remove of the storage may fail
\* solo:      the caller awaits every call before it makes the next
\* prefix:    the prefix the constructor was given
\* throwing:  the identifier generator may throw
WorkingEnv ==
    [available |-> TRUE, failing |-> FALSE, solo |-> FALSE,
     prefix |-> DefaultPrefix, throwing |-> FALSE]

\* ------------------------------------------------------------------ keys
\* `${this.prefix}.browser_id`, `${this.prefix}.created_at`, ...
prefix == env.prefix
KeyBrowserId == prefix \o <<".", "browser_id">>
KeyCreatedAt == prefix \o <<".", "created_at">>
KeyUpdatedAt == prefix \o <<".", "updated_at">>
IdentityKeys == {KeyBrowserId, KeyCreatedAt, KeyUpdatedAt}

NoSlot == 0
NoDelete == [kind |-> "nodelete"]

IdleCall ==
    [ op |-> "none", pc |-> "idle",
      id |-> Null, i |-> 0, newId |-> Null, success |-> TRUE,
      timestamp |-> Null, result |-> Null, outcome |-> "none",
      gens |-> 0, vcalls |-> 0, rejects |-> 0,
      wrote |-> Null, wroteTs |-> "none", createdWas |-> Null,
      overwrote |-> FALSE, writeFailed |-> FALSE,
      isValid |-> TRUE, removed |-> NoDelete,
      overlapped |-> FALSE, startEmpty |-> FALSE,
      seen |-> {}, afterDelete |-> NoDelete ]

\* no attribute method has been called
NoAttrCall == [op |-> "none"]

InFlight(c) == calls[c].pc \notin {"idle", "done"}
AnyInFlight == \E c \in Procs : InFlight(c)

\* The state after construction, in environment e, of implementation m.
Constructed(e, m) ==
    /\ impl = m
    /\ env = e
    /\ hasValidator \in BOOLEAN
    /\ storage = EmptyStorage
    /\ now = 0
    /\ calls = [c \in Procs |-> IdleCall]
    /\ ncalls = 0
    /\ handed = {}
    /\ overlapRejects = 0
    /\ lastDone = NoSlot
    /\ lastDelete = NoDelete
    /\ attrCall = [last |-> NoAttrCall, prev |-> NoAttrCall]
    /\ attrByKey = EmptyStorage
    /\ attrByField = EmptyStorage
    /\ generated = <<>>
    /\ generatedAt = [hi |-> 0, lo |-> 0]

Init == \E m \in Impls : Constructed(WorkingEnv, m)

\* ------------------------------------------------------------------ worlds
\* The part of the state an operation reads and writes, as one value, so that
\* the pieces of an operation compose.
World ==
    [ storage |-> storage, now |-> now, calls |-> calls, ncalls |-> ncalls,
      handed |-> handed, overlapRejects |-> overlapRejects,
      lastDone |-> lastDone, lastDelete |-> lastDelete ]

Commit(w) ==
    /\ storage' = w.storage
    /\ now' = w.now
    /\ calls' = w.calls
    /\ ncalls' = w.ncalls
    /\ handed' = w.handed
    /\ overlapRejects' = w.overlapRejects
    /\ lastDone' = w.lastDone
    /\ lastDelete' = w.lastDelete
    /\ UNCHANGED <<impl, hasValidator, env, attrVars>>

\* A per-slot table as an explicit function (one entry per slot).
PerSlot(f) == f @@ << >>

\* A new call takes the lowest slot that has no call under way.
CanStart(c) ==
    /\ ~InFlight(c)
    /\ \A d \in Procs : d < c => InFlight(d)
    /\ \A d \in Procs : InFlight(d) => calls[d].rejects <= MaxOverlapRejects
    /\ ncalls < MaxCalls
    /\ env.solo => ~AnyInFlight

\* Entry of a public method: a fresh frame; bookkeeping of what came before.
\* The frames of calls that have returned are dropped.
Begin(w, c, op) ==
    LET others == {d \in Procs \ {c} : w.calls[d].pc \notin {"idle", "done"}}
        frame == [IdleCall EXCEPT
                    !.op = op,
                    !.pc = "running",
                    !.overlapped = (others # {}),
                    !.startEmpty = (DOMAIN w.storage \cap IdentityKeys = {}),
                    !.seen = IF op = "get_id" THEN w.handed ELSE {},
                    !.afterDelete = IF op = "get_id" THEN w.lastDelete ELSE NoDelete,
                    !.removed = IF op = "delete_id"
                                THEN [kind |-> "delete",
                                      id |-> getItem(w.storage, KeyBrowserId),
                                      created |-> getItem(w.storage, KeyCreatedAt)]
                                ELSE NoDelete]
    IN [w EXCEPT
          !.calls = PerSlot([d \in Procs |->
                       IF d = c THEN frame
                       ELSE IF d \in others THEN [w.calls[d] EXCEPT !.overlapped = TRUE]
                       ELSE IdleCall]),
          !.ncalls = w.ncalls + 1,
          !.lastDone = NoSlot,
          !.lastDelete = NoDelete]

\* The frame of a call that has returned is gone at the next step of any
\* other call.
DropReturned(w, c) ==
    [w EXCEPT
       !.calls = PerSlot([d \in Procs |->
                    IF d # c /\ w.calls[d].pc = "done" THEN IdleCall
                    ELSE w.calls[d]]),
       !.lastDone = IF w.lastDone # c THEN NoSlot ELSE w.lastDone]

\* browser_id_version / get_browser_id_version, once the identifier getter
\* has returned id: if (!id) return null; if (!uuidValidate(id)) return null;
\* return uuidVersion(id)
browser_id_version(id) == IF IsUuid(id) THEN Num(7) ELSE Null

\* Return (or throw) of a public method.
Complete(w, c, result, outcome) ==
    LET call == w.calls[c]
        returned == IF call.op = "get_version" THEN browser_id_version(result)
                    ELSE result
        done == [call EXCEPT !.pc = "done", !.result = returned,
                             !.outcome = outcome]
    IN [DropReturned(w, c) EXCEPT
          !.calls[c] = done,
          !.lastDone = c,
          !.handed = IF call.op = "get_id" /\ IsUuid(result)
                     THEN w.handed \cup {[id |-> result, solo |-> ~call.overlapped]}
                     ELSE w.handed,
          !.lastDelete = IF call.op = "delete_id" /\ outcome = "deleted"
                         THEN [call.removed EXCEPT !.kind =
                                 IF call.overlapped THEN "raced" ELSE "delete"]
                         ELSE IF call.op = "peek_id" /\ outcome = "absent"
                         THEN [kind |-> "peeked", id |-> Null, created |-> Null]
                         ELSE w.lastDelete]

\* An await: the call goes on in a later step, from pc.
Suspend(w, c, pc) == [DropReturned(w, c) EXCEPT !.calls[c].pc = pc]

\* A removal of identity keys by delete_id ends the "no delete in between" span
\* of everything handed out so far and of every call under way.
Forget(w, c) ==
    [w EXCEPT
       !.handed = {},
       !.calls = PerSlot([d \in Procs |->
                    IF d # c /\ w.calls[d].pc \notin {"idle", "done"}
                    THEN [w.calls[d] EXCEPT !.seen = {}, !.afterDelete = NoDelete]
                    ELSE w.calls[d]])]

\* Whether a write or a remove of the storage fails.
WriteFails == IF env.failing THEN BOOLEAN ELSE {FALSE}

\* ------------------------------------------------------------------ reads
\* A getter that reads the identifier key where it should read its own.
ReadsBrowserId(s) == getItem(s, KeyBrowserId)
\* get created_at() / get_created_at(): if (!this.storage) return null;
\* return this.storage.getItem(`${this.prefix}.created_at`)
created_at(s) == IF ~env.available THEN Null ELSE getItem(s, KeyCreatedAt)
\* get updated_at() / get_updated_at()
updated_at(s) == IF ~env.available THEN Null ELSE getItem(s, KeyUpdatedAt)
\* browser_id_exists(): if (!this.storage) return false;
\* return this.storage.getItem(...browser_id) !== null
browser_id_exists(s) ==
    IF ~env.available THEN FALSE ELSE getItem(s, KeyBrowserId) # Null
\* Dart `prefs.getString(key) ?? ""`
OrEmpty(v) == IF v = Null THEN EmptyString ELSE v
\* get createdAt: return prefs.getString('$prefix.created_at') ?? ""
createdAt(s) == OrEmpty(getItem(s, KeyCreatedAt))
\* get updatedAt: return prefs.getString('$prefix.updated_at') ?? ""
updatedAt(s) == OrEmpty(getItem(s, KeyUpdatedAt))
\* browserIdExists(): return prefs.containsKey('$prefix.browser_id')
browserIdExists(s) == containsKey(s, KeyBrowserId)
\* id_exists of the implementation this behaviour runs
IdExists(s) == IF impl = "dart" THEN browserIdExists(s) ELSE browser_id_exists(s)

\* ------------------------------------------------------------------ retry loop
\* for (let i = 0; i < this.MAX_RETRY_VALIDATION; i++)
LoopContinuesOffByOne(i) == i <= MAX_RETRY_VALIDATION
LoopContinues(i) == i < MAX_RETRY_VALIDATION

\* if (isValid) { ...save... }
ShouldSaveAlways(isValid) == TRUE
ShouldSave(isValid) == isValid

\* A reading of the clock (Date.now(), new Date(), DateTime.now()): not before
\* the latest reading so far, which is what `now` holds.
Clock(w) == w.now .. MaxClock

\* newId = generate_uuidv7(): 48 bits of clock, the rest random.
Generate(w, c, r, t) ==
    [w EXCEPT !.now = t,
              !.calls[c].newId = Uuid(t, r),
              !.calls[c].gens = w.calls[c].gens + 1]

\* newId = generate_uuidv7() throws: newId is never assigned
GenerateThrows(w, c) ==
    [w EXCEPT !.calls[c].newId = Exception,
              !.calls[c].gens = w.calls[c].gens + 1]
\* The worlds of S in which the generator throws.
Throwing(S, c) ==
    IF env.throwing THEN {GenerateThrows(w, c) : w \in S} ELSE {}

\* let isValid = true (no validation function configured)
SetValid(w, c) == [w EXCEPT !.calls[c].isValid = TRUE]

\* The answers the validation function may give to slot c now.
Racing(w, c) == \E d \in Procs \ {c} : w.calls[d].pc \notin {"idle", "done"}
Answers(w, c) ==
    IF Racing(w, c) /\ w.overlapRejects >= MaxOverlapRejects
    THEN {TRUE} ELSE BOOLEAN

\* isValid = (await) this.browser_id_validation_func(newId), answering v
ValidateTwice(w, c, v) ==
    [w EXCEPT !.calls[c].isValid = v,
              !.calls[c].vcalls = w.calls[c].vcalls + 2,
              !.calls[c].rejects = w.calls[c].rejects + (IF v THEN 0 ELSE 1)]
Validate(w, c, v) ==
    [w EXCEPT !.calls[c].isValid = v,
              !.calls[c].vcalls = w.calls[c].vcalls + 1,
              !.calls[c].rejects = w.calls[c].rejects + (IF v THEN 0 ELSE 1),
              !.overlapRejects = IF ~v /\ Racing(w, c)
                                 THEN w.overlapRejects + 1 ELSE w.overlapRejects]

\* Whether the answer of the awaited validation function is a step of its own.
\* Past MaxOverlapRejects rejections no other call starts (CanStart), and the
\* rest of the loop runs in the step of the answer that precedes it.
Awaited(w, c) == hasValidator /\ w.calls[c].rejects <= MaxOverlapRejects

\* A rejected candidate that is stored all the same before the next iteration.
NextIterationSaved(w, c) ==
    [w EXCEPT !.storage = setItem(w.storage, KeyBrowserId, w.calls[c].newId),
              !.calls[c].i = w.calls[c].i + 1,
              !.calls[c].newId = Null,
              !.calls[c].isValid = TRUE]
\* i++ at the end of a rejected iteration; newId and isValid are declared in
\* the body of the loop and end with the iteration
NextIteration(w, c) ==
    [w EXCEPT !.calls[c].i = w.calls[c].i + 1,
              !.calls[c].newId = Null,
              !.calls[c].isValid = TRUE]

\* ------------------------------------------------------------------ TypeScript
\* const id = this.storage?.getItem(`${this.prefix}.browser_id`); if (id) ...
TsNeverFound(id) == FALSE
TsFound(id) == Truthy(id)

\* `this.storage?.getItem(...)` is undefined when this.storage is null
Lookup(w, c) ==
    [w EXCEPT !.calls[c].id = IF env.available
                              THEN getItem(w.storage, KeyBrowserId) ELSE Null]

\* The save block of _generate_browser_id: browser_id, then created_at on the
\* first generation or updated_at when created_at is already stored.
TsSaveCreatedAtAlways(s, newId, ts) ==
    setItem(setItem(s, KeyBrowserId, newId), KeyCreatedAt, ts)
TsSaveBothTimestamps(s, newId, ts) ==
    setItem(setItem(setItem(s, KeyBrowserId, newId), KeyCreatedAt, ts),
            KeyUpdatedAt, ts)
TsSaveTimestampOnly(s, newId, ts) ==
    IF Truthy(getItem(s, KeyCreatedAt))
    THEN setItem(s, KeyUpdatedAt, ts)
    ELSE setItem(s, KeyCreatedAt, ts)
TsSave(s, newId, ts) ==
    LET s1 == setItem(s, KeyBrowserId, newId)
    IN IF Truthy(getItem(s1, KeyCreatedAt))
       THEN setItem(s1, KeyUpdatedAt, ts)
       ELSE setItem(s1, KeyCreatedAt, ts)

\* What a write of newId over the stored browser_id replaces.
Overwrites(s, newId) == KeyBrowserId \in DOMAIN s /\ s[KeyBrowserId] # newId

TsSaved(w, c, t) ==
    LET call == w.calls[c]
        ts == Timestamp(t)
        was == getItem(w.storage, KeyCreatedAt)
    IN [w EXCEPT
          !.now = t,
          !.storage = TsSave(w.storage, call.newId, ts),
          !.calls[c].timestamp = ts,
          !.calls[c].wrote = call.newId,
          !.calls[c].overwrote = Overwrites(w.storage, call.newId),
          !.calls[c].createdWas = was,
          !.calls[c].wroteTs = IF Truthy(was) THEN "updated_at" ELSE "created_at"]

\* try { save; return newId } catch (e) { return null }: setItem may throw
\* on the browser_id key (nothing is written) or on the timestamp key.
TsSaveFailures(a, c) ==
    LET call == a.calls[c]
        thrown == [a EXCEPT !.calls[c].writeFailed = TRUE]
    IN {Complete(thrown, c, Null, "save_failed")}
       \cup {Complete([thrown EXCEPT
                         !.now = t,
                         !.storage = setItem(a.storage, KeyBrowserId, call.newId),
                         !.calls[c].timestamp = Timestamp(t),
                         !.calls[c].wrote = call.newId,
                         !.calls[c].overwrote = Overwrites(a.storage, call.newId),
                         !.calls[c].createdWas = getItem(a.storage, KeyCreatedAt)],
                      c, Null, "save_failed") : t \in Clock(a)}

\* try { if (this.storage) { save }  return newId } catch ...
TsSaveBlock(a, c) ==
    IF ~env.available
    THEN {Complete(a, c, a.calls[c].newId, "unsaved")}
    ELSE {Complete(TsSaved(a, c, t), c, a.calls[c].newId, "generated") :
            t \in Clock(a)}
         \cup (IF env.failing THEN TsSaveFailures(a, c) ELSE {})

\* A generator failure that is ignored: the save block runs.
TsThrownSaved(T, c) == UNION {TsSaveBlock(t, c) : t \in T}
\* catch (e) { console.error("Failed to generate UUID v7", e); return null }
TsThrown(T, c) == {Complete(t, c, Null, "generation_failed") : t \in T}

\* _generate_browser_id from the head of the loop up to its return or, with a
\* validation function in AsyncParticipant, up to the await of its answer,
\* for every world of S at once.
\* awaits = TRUE: the validator's answer arrives in a later step.
\* awaits = FALSE: the synchronous Participant; the answer v is taken at once.
RECURSIVE TsGenerateBrowserId(_, _, _)

\* the rest of an iteration's body once isValid is known
TsIteration(A, c, awaits) ==
    LET saved == {a \in A : ShouldSave(a.calls[c].isValid)}
    IN UNION {TsSaveBlock(a, c) : a \in saved}
       \cup TsGenerateBrowserId({NextIteration(a, c) : a \in A \ saved},
                                c, awaits)

\* an iteration's body from the freshly generated candidates on
TsCandidate(G, c, awaits) ==
    LET waiting == {g \in G : awaits /\ Awaited(g, c)}
        answered == IF hasValidator
                    THEN UNION {{Validate(g, c, v) : v \in Answers(g, c)} :
                                  g \in G \ waiting}
                    ELSE {SetValid(g, c) : g \in G}
    IN {Suspend(g, c, "validating") : g \in waiting}
       \cup TsIteration(answered, c, awaits)

TsGenerateBrowserId(S, c, awaits) ==
    IF S = {} THEN {}
    ELSE LET running == {w \in S : LoopContinues(w.calls[c].i)}
         IN {Complete(w, c, Null, "exhausted") : w \in S \ running}
            \cup TsThrown(Throwing(running, c), c)
            \cup TsCandidate(UNION {{Generate(w, c, r, t) :
                                       r \in RandVals, t \in Clock(w)} :
                                      w \in running}, c, awaits)

\* A validation function whose promise is not awaited: the promise is truthy.
AsyncNotAwaited(w, c) == TsIteration({Validate(w, c, TRUE)}, c, TRUE)
\* isValid = await this.browser_id_validation_func(newId): the call resumes
\* with the answer and runs to its return or to the next await
AsyncValidated(w, c) ==
    UNION {TsIteration({Validate(w, c, v)}, c, TRUE) : v \in Answers(w, c)}

\* A call of AsyncParticipant awaited to its end: the worlds in which call c
\* has returned, from the worlds S in which it has returned or is suspended.
RECURSIVE AsyncToEnd(_, _)
AsyncToEnd(S, c) ==
    LET returned == {w \in S : w.calls[c].pc = "done"}
    IN IF S = returned THEN returned
       ELSE returned
            \cup AsyncToEnd(UNION {AsyncValidated(w, c) : w \in S \ returned}, c)

\* get browser_id() / get_browser_id(), up to the first await
TsGetBrowserId(w, c, awaits) ==
    LET l == Lookup(Begin(w, c, "get_id"), c)
    IN IF TsFound(l.calls[c].id)
       THEN {Complete(l, c, l.calls[c].id, "hit")}
       ELSE TsGenerateBrowserId({l}, c, awaits)

\* const id = this.browser_id / await this.get_browser_id(), in
\* browser_id_version / get_browser_id_version
TsGetBrowserIdVersion(w, c, awaits) ==
    LET l == Lookup(Begin(w, c, "get_version"), c)
    IN IF TsFound(l.calls[c].id)
       THEN {Complete(l, c, l.calls[c].id, "hit")}
       ELSE TsGenerateBrowserId({l}, c, awaits)

\* delete_browser_id(): three removeItem calls, no await between them
TsDeleteBrowserIdOnly(w, c) ==
    LET b == Forget(Begin(w, c, "delete_id"), c)
    IN Complete([b EXCEPT !.storage = removeItem(b.storage, KeyBrowserId)],
                c, Null, "deleted")
TsDeleteBrowserId(w, c) ==
    LET b == Forget(Begin(w, c, "delete_id"), c)
        s == removeItem(removeItem(removeItem(b.storage, KeyBrowserId),
                                   KeyCreatedAt), KeyUpdatedAt)
    IN IF ~env.available
       THEN Complete(b, c, Null, "noop")
       ELSE Complete([b EXCEPT !.storage = s], c, Null, "deleted")

\* class Participant
Participant_browser_id(c) ==
    /\ impl = "ts_sync"
    /\ CanStart(c)
    /\ \E w \in TsGetBrowserId(World, c, FALSE) : Commit(w)

Participant_delete_browser_id(c) ==
    /\ impl = "ts_sync"
    /\ CanStart(c)
    /\ Commit(TsDeleteBrowserId(World, c))

Participant_browser_id_version(c) ==
    /\ impl = "ts_sync"
    /\ CanStart(c)
    /\ \E w \in TsGetBrowserIdVersion(World, c, FALSE) : Commit(w)

\* class AsyncParticipant
AsyncParticipant_get_browser_id_version(c) ==
    /\ impl = "ts_async"
    /\ CanStart(c)
    /\ \E w \in TsGetBrowserIdVersion(World, c, TRUE) : Commit(w)

AsyncParticipant_get_browser_id(c) ==
    /\ impl = "ts_async"
    /\ CanStart(c)
    /\ \E w \in TsGetBrowserId(World, c, TRUE) : Commit(w)

\* the awaited validation function answers v; the loop goes on from there
AsyncParticipant_validated(c) ==
    /\ impl = "ts_async"
    /\ calls[c].pc = "validating"
    /\ \E w \in AsyncValidated(World, c) : Commit(w)

AsyncParticipant_delete_browser_id(c) ==
    /\ impl = "ts_async"
    /\ CanStart(c)
    /\ Commit(TsDeleteBrowserId(World, c))

\* ------------------------------------------------------------------ Dart
\* final id = prefs.getString('$prefix.browser_id'); if (id != null) ...
DartNeverFound(id) == FALSE
DartFound(id) == id # Null

\* await prefs.setString('$prefix.browser_id', newId): the value is in the
\* preferences cache when the call returns; the await resumes later.
DartSetBrowserId(w, c) ==
    LET call == w.calls[c]
    IN Suspend([w EXCEPT
                  !.storage = setItem(w.storage, KeyBrowserId, call.newId),
                  !.calls[c].success = TRUE,
                  !.calls[c].overwrote = Overwrites(w.storage, call.newId),
                  !.calls[c].wrote = call.newId], c, "saved_id")

\* setString answers false: the value is not stored
DartSetBrowserIdFailed(w, c) ==
    Suspend([w EXCEPT !.calls[c].success = FALSE,
                      !.calls[c].writeFailed = TRUE], c, "saved_id")

DartSetBrowserIds(w, c) ==
    {DartSetBrowserId(w, c)}
    \cup (IF env.failing THEN {DartSetBrowserIdFailed(w, c)} ELSE {})

\* _generateBrowserId from the head of the loop up to its next await or
\* throw, for every world of S at once
RECURSIVE DartGenerateBrowserId(_, _)

\* the rest of an iteration's body once isValid is known
DartIteration(A, c) ==
    LET saved == {a \in A : ShouldSave(a.calls[c].isValid)}
    IN UNION {DartSetBrowserIds(a, c) : a \in saved}
       \cup DartGenerateBrowserId({NextIteration(a, c) : a \in A \ saved}, c)

\* an iteration's body from the freshly generated candidates on
DartCandidate(G, c) ==
    LET waiting == {g \in G : Awaited(g, c)}
        answered == IF hasValidator
                    THEN UNION {{Validate(g, c, v) : v \in Answers(g, c)} :
                                  g \in G \ waiting}
                    ELSE {SetValid(g, c) : g \in G}
    IN {Suspend(g, c, "validating") : g \in waiting}
       \cup DartIteration(answered, c)

\* _uuid.v7() throws inside the try of _generateBrowserId: catch (e) { throw
\* Exception('Failed to generate or save browser_id: $e') }
DartThrown(T, c) == {Complete(t, c, Exception, "generation_failed") : t \in T}

DartGenerateBrowserId(S, c) ==
    IF S = {} THEN {}
    ELSE LET running == {w \in S : LoopContinues(w.calls[c].i)}
         IN {Complete(w, c, Exception, "exhausted") : w \in S \ running}
            \cup DartThrown(Throwing(running, c), c)
            \cup DartCandidate(UNION {{Generate(w, c, r, t) :
                                         r \in RandVals, t \in Clock(w)} :
                                        w \in running}, c)

\* the timestamp write after the await of setString(browser_id)
DartSaveUpdatedAtAlways(s, ts) == setItem(s, KeyUpdatedAt, ts)
DartSaveTimestamp(s, ts) ==
    IF containsKey(s, KeyCreatedAt)
    THEN setItem(s, KeyUpdatedAt, ts)
    ELSE setItem(s, KeyCreatedAt, ts)

\* An await with no storage access between it and the entry or the return of
\* its method is not a step of its own: `await SharedPreferences.getInstance()`
\* at the entry of getBrowserId and deleteBrowserId, and the await of the last
\* write before the return.

\* getBrowserId({generateIfNotExists}): the read; on a miss either
\* _generateBrowserId(), which awaits getInstance(), or return ""
DartGetBrowserIdGenerating(w, c, op, generateIfNotExists) ==
    LET l == Lookup(Begin(w, c, op), c)
    IN IF DartFound(l.calls[c].id)
       THEN Complete(l, c, l.calls[c].id, "hit")
       ELSE Suspend(l, c, "gen_inst")
DartGetBrowserId(w, c, op, generateIfNotExists) ==
    LET l == Lookup(Begin(w, c, op), c)
    IN IF DartFound(l.calls[c].id)
       THEN Complete(l, c, l.calls[c].id, "hit")
       ELSE IF generateIfNotExists
       THEN Suspend(l, c, "gen_inst")
       ELSE Complete(l, c, EmptyString, "absent")

\* getBrowserId(), generateIfNotExists = true (the default)
getBrowserId(c) ==
    /\ impl = "dart"
    /\ CanStart(c)
    /\ Commit(DartGetBrowserId(World, c, "get_id", TRUE))

\* getBrowserId(generateIfNotExists: false)
getBrowserId_noGenerate(c) ==
    /\ impl = "dart"
    /\ CanStart(c)
    /\ Commit(DartGetBrowserId(World, c, "peek_id", FALSE))

\* _generateBrowserId(): the loop starts
generateBrowserId(c) ==
    /\ impl = "dart"
    /\ calls[c].pc = "gen_inst"
    /\ \E w \in DartGenerateBrowserId({World}, c) : Commit(w)

\* _generateBrowserId(): the awaited validation function answers v
generateBrowserId_validated(c) ==
    /\ impl = "dart"
    /\ calls[c].pc = "validating"
    /\ \E v \in Answers(World, c) :
         \E w \in DartIteration({Validate(World, c, v)}, c) : Commit(w)

\* _generateBrowserId(): after setString(browser_id), write the timestamp;
\* if (!success) throw ...; return newId
generateBrowserId_timestamp(c) ==
    /\ impl = "dart"
    /\ calls[c].pc = "saved_id"
    /\ \E t \in Clock(World), fails \in WriteFails :
       LET ts == Timestamp(t)
           had == containsKey(storage, KeyCreatedAt)
           w == [World EXCEPT
                   !.now = t,
                   !.storage = IF fails THEN storage
                               ELSE DartSaveTimestamp(storage, ts),
                   !.calls[c].timestamp = ts,
                   !.calls[c].createdWas = getItem(storage, KeyCreatedAt),
                   !.calls[c].writeFailed = calls[c].writeFailed \/ fails,
                   !.calls[c].wroteTs = IF fails THEN "none"
                                        ELSE IF had THEN "updated_at"
                                        ELSE "created_at"]
       IN IF calls[c].success
          THEN Commit(Complete(w, c, calls[c].newId, "generated"))
          ELSE Commit(Complete(w, c, Exception, "save_failed"))

\* deleteBrowserId(): await prefs.remove('$prefix.browser_id')
deleteBrowserId(c) ==
    /\ impl = "dart"
    /\ CanStart(c)
    /\ \E fails \in WriteFails :
       LET f == Forget(Begin(World, c, "delete_id"), c)
       IN Commit(Suspend([f EXCEPT
                            !.storage = IF fails THEN storage
                                        ELSE removeItem(storage, KeyBrowserId),
                            !.calls[c].writeFailed = fails,
                            !.calls[c].success = ~fails], c, "del_id"))

\* deleteBrowserId(): if (success) await prefs.remove('$prefix.created_at');
\* if (!success) throw ...
deleteBrowserId_removeCreatedAt(c) ==
    /\ impl = "dart"
    /\ calls[c].pc = "del_id"
    /\ IF calls[c].success
       THEN Commit(Suspend([Forget(World, c) EXCEPT
                              !.storage = removeItem(storage, KeyCreatedAt)],
                           c, "del_created"))
       ELSE Commit(Complete(World, c, Exception, "delete_failed"))

\* deleteBrowserId(): await prefs.remove('$prefix.updated_at'); return
deleteBrowserId_removeUpdatedAt(c) ==
    /\ impl = "dart"
    /\ calls[c].pc = "del_created"
    /\ Commit(Complete([Forget(World, c) EXCEPT
                          !.storage = removeItem(storage, KeyUpdatedAt)],
                       c, Null, "deleted"))

\* ------------------------------------------------------------------ getters
\* The getters of the timestamps and of the existence of the identifier.
\* None has an await between its entry and its read, so each is one step; a
\* getter may be called while a call of get_id or delete_id is suspended.
ReadOps == {"get_created_at", "get_updated_at", "id_exists"}

CanRead(c) ==
    /\ ~InFlight(c)
    /\ \A d \in Procs : d < c => InFlight(d)
    /\ ncalls < MaxCalls

Read(w, c, op, value) == Complete(Begin(w, c, op), c, value, "read")

\* Participant.created_at, AsyncParticipant.get_created_at()
Participant_created_at(c) ==
    /\ impl \in {"ts_sync", "ts_async"}
    /\ CanRead(c)
    /\ Commit(Read(World, c, "get_created_at", created_at(storage)))

\* Participant.updated_at, AsyncParticipant.get_updated_at()
Participant_updated_at(c) ==
    /\ impl \in {"ts_sync", "ts_async"}
    /\ CanRead(c)
    /\ Commit(Read(World, c, "get_updated_at", updated_at(storage)))

\* Participant.browser_id_exists(), AsyncParticipant.browser_id_exists()
Participant_browser_id_exists(c) ==
    /\ impl \in {"ts_sync", "ts_async"}
    /\ CanRead(c)
    /\ Commit(Read(World, c, "id_exists", Bool(browser_id_exists(storage))))

\* Dart Participant.createdAt
Participant_createdAt(c) ==
    /\ impl = "dart"
    /\ CanRead(c)
    /\ Commit(Read(World, c, "get_created_at", createdAt(storage)))

\* Dart Participant.updatedAt
Participant_updatedAt(c) ==
    /\ impl = "dart"
    /\ CanRead(c)
    /\ Commit(Read(World, c, "get_updated_at", updatedAt(storage)))

\* Dart Participant.browserIdExists()
Participant_browserIdExists(c) ==
    /\ impl = "dart"
    /\ CanRead(c)
    /\ Commit(Read(World, c, "id_exists", Bool(browserIdExists(storage))))

\* ------------------------------------------------------------------ JSON
\* A JSON text is a string: the sequence of its pieces.  A number is one piece
\* (one digit), a string literal is its pieces between two quotes; the pieces
\* of the strings used here need no escaping.
Quote == "\""
DigitChars == <<"0", "1", "2", "3", "4", "5", "6", "7", "8", "9">>
IsDigit(t) == \E i \in DOMAIN DigitChars : DigitChars[i] = t
DigitOf(t) == (CHOOSE i \in DOMAIN DigitChars : DigitChars[i] = t) - 1

\* JSON.stringify(value) / jsonEncode(value)
RECURSIVE JSON_stringify(_), StringifyItems(_), StringifyEntries(_)
StringifyItems(items) ==
    IF items = <<>> THEN <<>>
    ELSE JSON_stringify(Head(items))
         \o (IF Tail(items) = <<>> THEN <<>>
             ELSE <<",">> \o StringifyItems(Tail(items)))
StringifyEntries(entries) ==
    IF entries = <<>> THEN <<>>
    ELSE <<Quote>> \o Head(entries).key \o <<Quote, ":">>
         \o JSON_stringify(Head(entries).val)
         \o (IF Tail(entries) = <<>> THEN <<>>
             ELSE <<",">> \o StringifyEntries(Tail(entries)))
JSON_stringify(v) ==
    CASE v.kind = "null" -> <<"null">>
      [] v.kind = "bool" -> IF v.val THEN <<"true">> ELSE <<"false">>
      [] v.kind = "number" -> <<DigitChars[v.n + 1]>>
      [] v.kind = "string" -> <<Quote>> \o v.chars \o <<Quote>>
      [] v.kind = "list" -> <<"[">> \o StringifyItems(v.items) \o <<"]">>
      [] v.kind = "map" -> <<"{">> \o StringifyEntries(v.entries) \o <<"}">>

\* JSON.parse(text): recursive descent; a parse gives the value and the rest
\* of the text, or fails
ParseError == [ok |-> FALSE]
Parsed(v, rest) == [ok |-> TRUE, val |-> v, rest |-> rest]
RECURSIVE ParseValue(_), ParseChars(_, _), ParseItems(_, _), ParseEntries(_, _)
\* after the opening quote of a string literal
ParseChars(ts, acc) ==
    IF ts = <<>> THEN ParseError
    ELSE IF Head(ts) = Quote THEN Parsed(Str(acc), Tail(ts))
    ELSE ParseChars(Tail(ts), Append(acc, Head(ts)))
\* after "[" or "," of an array
ParseItems(ts, acc) ==
    LET r == ParseValue(ts)
    IN IF ~r.ok THEN ParseError
       ELSE IF r.rest = <<>> THEN ParseError
       ELSE IF Head(r.rest) = "]"
       THEN Parsed(List(Append(acc, r.val)), Tail(r.rest))
       ELSE IF Head(r.rest) = ","
       THEN ParseItems(Tail(r.rest), Append(acc, r.val))
       ELSE ParseError
\* after "{" or "," of an object
ParseEntries(ts, acc) ==
    IF ts = <<>> \/ Head(ts) # Quote THEN ParseError
    ELSE LET k == ParseChars(Tail(ts), <<>>)
         IN IF ~k.ok THEN ParseError
            ELSE IF k.rest = <<>> \/ Head(k.rest) # ":" THEN ParseError
            ELSE LET r == ParseValue(Tail(k.rest))
                     e == Append(acc, Entry(k.val.chars, r.val))
                 IN IF ~r.ok THEN ParseError
                    ELSE IF r.rest = <<>> THEN ParseError
                    ELSE IF Head(r.rest) = "}"
                    THEN Parsed(Map(e), Tail(r.rest))
                    ELSE IF Head(r.rest) = ","
                    THEN ParseEntries(Tail(r.rest), e)
                    ELSE ParseError
ParseValue(ts) ==
    IF ts = <<>> THEN ParseError
    ELSE LET h == Head(ts)
             t == Tail(ts)
         IN IF h = "null" THEN Parsed(Null, t)
            ELSE IF h = "true" THEN Parsed(Bool(TRUE), t)
            ELSE IF h = "false" THEN Parsed(Bool(FALSE), t)
            ELSE IF IsDigit(h) THEN Parsed(Num(DigitOf(h)), t)
            ELSE IF h = Quote THEN ParseChars(t, <<>>)
            ELSE IF h = "["
            THEN IF t # <<>> /\ Head(t) = "]" THEN Parsed(List(<<>>), Tail(t))
                 ELSE ParseItems(t, <<>>)
            ELSE IF h = "{"
            THEN IF t # <<>> /\ Head(t) = "}" THEN Parsed(Map(<<>>), Tail(t))
                 ELSE ParseEntries(t, <<>>)
            ELSE ParseError
JSON_parse(text) ==
    LET r == ParseValue(text)
    IN IF r.ok /\ r.rest = <<>> THEN r.val ELSE SyntaxError

\* ------------------------------------------------------------------ attributes
\* Two participants share the prefix and differ in app_name; names are
\* strings, and a string may contain ".".
AppNames == {<<"a">>, <<"a", ".", "b">>}
FieldNames == {<<"c">>, <<"b", ".", "c">>}
AttrValues ==
    { Str(<<"A">>), Num(1), Bool(TRUE), Null,
      List(<<Str(<<"A">>)>>),
      Map(<<Entry(<<"k">>, List(<<Num(1)>>))>>) }
DefaultValues == {Str(<<"fallback">>)}
\* An object that refers to itself: JSON.stringify throws a TypeError on it
\* and jsonEncode a JsonCyclicError.
Cyclic == [kind |-> "cyclic"]
\* The values of a set_attribute call whose try block throws: any value when
\* the storage write throws, and the value that cannot be serialized.
ThrowingValues == IF env.failing THEN AttrValues \cup {Cyclic} ELSE {}

\* `${this.prefix}.${this.app_name}.${field}` / '$prefix.$appName.$field'
\* The key of the README's table: <prefix>.attributes.<app_name>.<field>
AttrKeyReadme(app, field) ==
    prefix \o <<".", "attributes", ".">> \o app \o <<".">> \o field
AttrKeyWithoutAppName(app, field) == prefix \o <<".">> \o field
AttrKey(app, field) == prefix \o <<".">> \o app \o <<".">> \o field

\* set_attribute(field, value): JSON.stringify, then setItem
TsSetAttribute(s, key, value) ==
    IF ~env.available THEN s
    ELSE setItem(s, key, Str(JSON_stringify(value)))

\* get_attribute(field, defaultValue): if (value) { try { return
\* JSON.parse(value) } catch (e) { return value } } else return defaultValue
TsGetAttributeDefault(s, key, defaultValue) == defaultValue
TsGetAttribute(s, key, defaultValue) ==
    IF ~env.available THEN defaultValue
    ELSE LET value == getItem(s, key)
         IN IF Truthy(value)
            THEN LET parsed == JSON_parse(value.chars)
                 IN IF parsed = SyntaxError THEN value ELSE parsed
            ELSE defaultValue

\* attributes_exists(field): getItem(...) !== null
TsAttributesExists(s, key) ==
    IF ~env.available THEN FALSE ELSE getItem(s, key) # Null

\* delete_attribute(field): removeItem
TsDeleteAttribute(s, key) == IF ~env.available THEN s ELSE removeItem(s, key)

\* `value is List<String>`: a list all of whose elements are strings
\* (the literal [] is a List<dynamic>)
IsStringList(v) ==
    /\ v.kind = "list"
    /\ v.items # <<>>
    /\ \A i \in DOMAIN v.items : v.items[i].kind = "string"

\* setAttribute(field, value): null removes the key; String, int, double,
\* bool and List<String> are stored as they are; any other value is stored
\* as the string jsonEncode(value)
DartSetAttribute(s, key, value) ==
    IF value = Null THEN removeItem(s, key)
    ELSE IF value.kind \in {"string", "number", "bool"}
    THEN setItem(s, key, value)
    ELSE IF IsStringList(value) THEN setItem(s, key, value)
    ELSE setItem(s, key, Str(JSON_stringify(value)))

\* getAttribute(field, defaultValue): if (!prefs.containsKey(key)) return
\* defaultValue; return prefs.get(key) ?? defaultValue
DartGetAttribute(s, key, defaultValue) ==
    IF ~containsKey(s, key) THEN defaultValue
    ELSE IF getItem(s, key) = Null THEN defaultValue
    ELSE getItem(s, key)

\* attributesExists(field): prefs.containsKey(key)
DartAttributesExists(s, key) == containsKey(s, key)

\* deleteAttribute(field): prefs.remove(key)
DartDeleteAttribute(s, key) == removeItem(s, key)

\* An attribute method has no await between its entry and its storage access
\* nor between that and its return: it is one step.  The caller awaits each
\* call before the next.
AttrCall(op, app, field, value, defaultValue, result) ==
    [ op |-> op, app |-> app, field |-> field, value |-> value,
      defaultValue |-> defaultValue, result |-> result ]

AttrDone(call, s) ==
    LET key == AttrKey(call.app, call.field)
        pair == <<call.app, call.field>>
    IN /\ ~AnyInFlight
       /\ ncalls < MaxCalls
       /\ ncalls' = ncalls + 1
       /\ storage' = s
       /\ attrCall' = [last |-> call, prev |-> attrCall.last]
       /\ attrByKey' = CASE call.op = "set" -> setItem(attrByKey, key, call.value)
                         [] call.op = "delete" -> removeItem(attrByKey, key)
                         [] OTHER -> attrByKey
       /\ attrByField' = CASE call.op = "set" -> setItem(attrByField, pair, call.value)
                           [] call.op = "delete" -> removeItem(attrByField, pair)
                           [] OTHER -> attrByField
       /\ UNCHANGED <<impl, hasValidator, now, calls, handed, overlapRejects,
                      lastDone, lastDelete, env, generated, generatedAt>>

IsTs == impl \in {"ts_sync", "ts_async"}

\* Participant.set_attribute, AsyncParticipant.set_attribute: try {
\* JSON.stringify; setItem } catch (e) { console.error(...) }, and the method
\* returns undefined either way
Participant_set_attribute(app, field) ==
    /\ IsTs
    /\ \/ \E value \in AttrValues :
            AttrDone(AttrCall("set", app, field, value, Null, Null),
                     TsSetAttribute(storage, AttrKey(app, field), value))
       \/ \E value \in ThrowingValues :
            AttrDone(AttrCall("set_failed", app, field, value, Null, Null),
                     storage)

\* Participant.get_attribute, AsyncParticipant.get_attribute
Participant_get_attribute(app, field) ==
    /\ IsTs
    /\ \E d \in DefaultValues :
         AttrDone(AttrCall("get", app, field, Null, d,
                           TsGetAttribute(storage, AttrKey(app, field), d)),
                  storage)

\* Participant.attributes_exists, AsyncParticipant.attributes_exists
Participant_attributes_exists(app, field) ==
    /\ IsTs
    /\ AttrDone(AttrCall("exists", app, field, Null, Null,
                         Bool(TsAttributesExists(storage, AttrKey(app, field)))),
                storage)

\* Participant.delete_attribute, AsyncParticipant.delete_attribute
Participant_delete_attribute(app, field) ==
    /\ IsTs
    /\ AttrDone(AttrCall("delete", app, field, Null, Null, Null),
                TsDeleteAttribute(storage, AttrKey(app, field)))

\* Dart Participant.setAttribute: if (!success) throw Exception(...), and
\* catch (e) { throw Exception('Failed to set attribute ...') }
Participant_setAttribute(app, field) ==
    /\ impl = "dart"
    /\ \/ \E value \in AttrValues :
            AttrDone(AttrCall("set", app, field, value, Null, Null),
                     DartSetAttribute(storage, AttrKey(app, field), value))
       \/ \E value \in ThrowingValues :
            AttrDone(AttrCall("set_failed", app, field, value, Null, Exception),
                     storage)

\* Dart Participant.getAttribute
Participant_getAttribute(app, field) ==
    /\ impl = "dart"
    /\ \E d \in DefaultValues :
         AttrDone(AttrCall("get", app, field, Null, d,
                           DartGetAttribute(storage, AttrKey(app, field), d)),
                  storage)

\* Dart Participant.attributesExists
Participant_attributesExists(app, field) ==
    /\ impl = "dart"
    /\ AttrDone(AttrCall("exists", app, field, Null, Null,
                         Bool(DartAttributesExists(storage, AttrKey(app, field)))),
                storage)

\* Dart Participant.deleteAttribute: if (!success) throw Exception(...)
Participant_deleteAttribute(app, field) ==
    /\ impl = "dart"
    /\ \E failed \in WriteFails :
         IF failed
         THEN AttrDone(AttrCall("delete_failed", app, field, Null, Null,
                                Exception), storage)
         ELSE AttrDone(AttrCall("delete", app, field, Null, Null, Null),
                       DartDeleteAttribute(storage, AttrKey(app, field)))

\* ------------------------------------------------------------------ key use
\* The key strings a method passes to the storage (getItem, setItem,
\* removeItem; getString, containsKey, get, set..., remove) when it is called
\* on storage s and runs to its end without a failure.  accepted: a
\* candidate identifier passes the validation.
MethodNames ==
    { "get_id", "delete_id", "get_created_at", "get_updated_at", "id_exists",
      "set", "get", "exists", "delete" }

\* participants-id.ts, Participant and AsyncParticipant
TsKeysUsed(op, s, app, field, accepted) ==
    LET browser_id == prefix \o <<".", "browser_id">>
        createdAtKey == prefix \o <<".", "created_at">>
        updatedAtKey == prefix \o <<".", "updated_at">>
        attribute == prefix \o <<".">> \o app \o <<".">> \o field
    IN CASE op = "get_id" ->
              IF TsFound(getItem(s, browser_id)) \/ ~accepted
              THEN {browser_id}
              ELSE IF Truthy(getItem(s, createdAtKey))
              THEN {browser_id, createdAtKey, updatedAtKey}
              ELSE {browser_id, createdAtKey}
         [] op = "delete_id" -> {browser_id, createdAtKey, updatedAtKey}
         [] op = "get_created_at" -> {createdAtKey}
         [] op = "get_updated_at" -> {updatedAtKey}
         [] op = "id_exists" -> {browser_id}
         [] OTHER -> {attribute}

\* participants_id.dart, Participant
DartKeysUsed(op, s, appName, field, accepted) ==
    LET browser_id == prefix \o <<".", "browser_id">>
        createdAtKey == prefix \o <<".", "created_at">>
        updatedAtKey == prefix \o <<".", "updated_at">>
        key == prefix \o <<".">> \o appName \o <<".">> \o field
    IN CASE op = "get_id" ->
              IF DartFound(getItem(s, browser_id)) \/ ~accepted
              THEN {browser_id}
              ELSE IF containsKey(s, createdAtKey)
              THEN {browser_id, createdAtKey, updatedAtKey}
              ELSE {browser_id, createdAtKey}
         [] op = "delete_id" -> {browser_id, createdAtKey, updatedAtKey}
         [] op = "get_created_at" -> {createdAtKey}
         [] op = "get_updated_at" -> {updatedAtKey}
         [] op = "id_exists" -> {browser_id}
         [] OTHER -> {key}

\* ------------------------------------------------------------------ generator
\* Text is a sequence of characters.  A 48-bit number (Date.now(), the last
\* 48 random bits) is two 24-bit limbs, hi * 2^24 + lo.
Limb == 16777216
HexDigits ==
    <<"0", "1", "2", "3", "4", "5", "6", "7",
      "8", "9", "a", "b", "c", "d", "e", "f">>

\* n.toString(16)
RECURSIVE toString16(_)
toString16(n) ==
    IF n < 16 THEN <<HexDigits[n + 1]>>
    ELSE toString16(n \div 16) \o <<HexDigits[(n % 16) + 1]>>

\* s.padStart(len, ch)
padStart(s, len, ch) ==
    IF Len(s) >= len THEN s ELSE [i \in 1 .. (len - Len(s)) |-> ch] \o s

\* s.substring(a, b)
substring(s, a, b) ==
    SubSeq(s, a + 1, IF b < Len(s) THEN b ELSE Len(s))

\* n.toString(16) of a 48-bit number
toString16_48(n) ==
    IF n.hi = 0 THEN toString16(n.lo)
    ELSE toString16(n.hi) \o padStart(toString16(n.lo), 6, "0")

\* The six bytes of the clock reading, lowest byte first.
TimestampBytesLittleEndian(t) ==
    << t.lo % 256, (t.lo \div 256) % 256, (t.lo \div 65536) % 256,
       t.hi % 256, (t.hi \div 256) % 256, (t.hi \div 65536) % 256 >>
\* bytes[0] = (now / 0x10000000000) & 0xff; ... bytes[5] = now & 0xff
TimestampBytes(t) ==
    << (t.hi \div 65536) % 256, (t.hi \div 256) % 256, t.hi % 256,
       (t.lo \div 65536) % 256, (t.lo \div 256) % 256, t.lo % 256 >>

\* hex[0..3]-hex[4..5]-hex[6..7]-hex[8..9]-hex[10..15], each byte as
\* b.toString(16).padStart(2, '0')
FormatBytes(bytes) ==
    LET hex == [i \in 1 .. 16 |-> padStart(toString16(bytes[i]), 2, "0")]
    IN hex[1] \o hex[2] \o hex[3] \o hex[4] \o <<"-">>
       \o hex[5] \o hex[6] \o <<"-">>
       \o hex[7] \o hex[8] \o <<"-">>
       \o hex[9] \o hex[10] \o <<"-">>
       \o hex[11] \o hex[12] \o hex[13] \o hex[14] \o hex[15] \o hex[16]

\* The 16 bytes with the version and the variant set:
\* bytes[6] = (bytes[6] & 0x0f) | (version << 4);
\* bytes[8] = (bytes[8] & 0x3f) | 0x80
Stamped(bytes, version) ==
    [i \in 1 .. 16 |->
        IF i = 7 THEN (bytes[i] % 16) + version * 16
        ELSE IF i = 9 THEN (bytes[i] % 64) + 128
        ELSE bytes[i]]

\* generate_uuidv7, Web Crypto path: random bytes, the timestamp over the
\* first six, version 7 and the variant
CryptoUuidv7(t, random) ==
    FormatBytes(Stamped([i \in 1 .. 16 |->
                            IF i <= 6 THEN TimestampBytes(t)[i] ELSE random[i]],
                        7))

\* generate_uuidv7, Math.random path:
\* `${tsHex.substring(0, 8)}-${tsHex.substring(8, 12)}-7${randA}-${variant}${randB_1}-${randB_2}`
MathRandomUuidv7(timestamp, a, v, b1, b2) ==
    LET tsHex == padStart(toString16_48(timestamp), 12, "0")
        randA == padStart(toString16(a), 3, "0")
        variant == <<"8", "9", "a", "b">>[v + 1]
        randB_1 == padStart(toString16(b1), 3, "0")
        randB_2 == padStart(toString16_48(b2), 12, "0")
    IN substring(tsHex, 0, 8) \o <<"-">> \o substring(tsHex, 8, 12)
       \o <<"-", "7">> \o randA \o <<"-", variant>> \o randB_1
       \o <<"-">> \o randB_2

\* uuidv4() of the uuid package: random bytes, version 4 and the variant
Uuidv4(random) == FormatBytes(Stamped(random, 4))

\* The readings of the clock and the random numbers the generator is given.
Times ==
    { [hi |-> 0, lo |-> 0], [hi |-> 0, lo |-> 255], [hi |-> 1, lo |-> 256],
      [hi |-> 103000, lo |-> 1193046], [hi |-> Limb - 1, lo |-> Limb - 1] }
ByteValues == {0, 15, 128, 255}
RandomBytes == {[i \in 1 .. 16 |-> IF i = 7 THEN b ELSE IF i = 9 THEN d ELSE e] :
                  b \in ByteValues, d \in ByteValues, e \in {0, 255}}
\* Math.floor(Math.random() * 0xFFF)
Random12 == {0, 255, 4094}
\* Math.floor(Math.random() * 0xFFFFFFFFFFFF)
Random48 == {[hi |-> 0, lo |-> 0], [hi |-> Limb - 1, lo |-> Limb - 2]}

Generated(text) ==
    /\ generated' = text
    /\ UNCHANGED <<impl, hasValidator, storage, now, calls, ncalls, handed,
                   overlapRejects, lastDone, lastDelete, env, attrCall,
                   attrByKey, attrByField>>

\* generate_uuidv7(): crypto.getRandomValues is there and works
generate_uuidv7 ==
    /\ IsTs
    /\ \E t \in Times, random \in RandomBytes :
         /\ generatedAt' = t
         /\ Generated(CryptoUuidv7(t, random))

\* generate_uuidv7(): no crypto.getRandomValues, or it threw
generate_uuidv7_fallback ==
    /\ IsTs
    /\ \E t \in Times, a \in Random12, v \in 0 .. 3, b1 \in Random12,
          b2 \in Random48 :
         /\ generatedAt' = t
         /\ Generated(MathRandomUuidv7(t, a, v, b1, b2))

\* the Participant that draws on the uuid package: try { newId = uuidv7() }
\* catch (e) { newId = uuidv4() }
Participant_generate_browser_id_uuidv4 ==
    /\ impl = "ts_sync"
    /\ \E random \in RandomBytes : Generated(Uuidv4(random))
    /\ UNCHANGED generatedAt

\* ------------------------------------------------------------------ system
Next ==
    \E c \in Procs :
         \/ Participant_browser_id(c)
         \/ Participant_delete_browser_id(c)
         \/ AsyncParticipant_get_browser_id(c)
         \/ AsyncParticipant_validated(c)
         \/ AsyncParticipant_delete_browser_id(c)
         \/ getBrowserId(c)
         \/ generateBrowserId(c)
         \/ generateBrowserId_validated(c)
         \/ generateBrowserId_timestamp(c)
         \/ deleteBrowserId(c)
         \/ deleteBrowserId_removeCreatedAt(c)
         \/ deleteBrowserId_removeUpdatedAt(c)

Spec == Init /\ [][Next]_vars

\* The same calls, awaited one after the other, on a storage whose writes
\* may fail (localStorage.setItem throws; SharedPreferences answers false).
FailingEnv == [WorkingEnv EXCEPT !.failing = TRUE, !.solo = TRUE]
FailInit == \E m \in Impls : Constructed(FailingEnv, m)
FailSpec == FailInit /\ [][Next]_vars

\* The calls of get_id and delete_id awaited one after the other, and between
\* or during them the getters and getBrowserId(generateIfNotExists: false).
SoloEnv == [WorkingEnv EXCEPT !.solo = TRUE]
ReadInit == \E m \in Impls : Constructed(SoloEnv, m)
ReadNext ==
    \/ Next
    \/ \E c \in Procs :
         \/ getBrowserId_noGenerate(c)
         \/ Participant_created_at(c)
         \/ Participant_updated_at(c)
         \/ Participant_browser_id_exists(c)
         \/ Participant_createdAt(c)
         \/ Participant_updatedAt(c)
         \/ Participant_browserIdExists(c)
ReadSpec == ReadInit /\ [][ReadNext]_vars

\* The attribute store: two participants of one implementation on one storage,
\* every call awaited before the next.
AttrInit == \E m \in Impls : Constructed(SoloEnv, m) /\ ~hasValidator
AttrNext ==
    \E app \in AppNames, field \in FieldNames :
         \/ Participant_set_attribute(app, field)
         \/ Participant_get_attribute(app, field)
         \/ Participant_attributes_exists(app, field)
         \/ Participant_delete_attribute(app, field)
         \/ Participant_setAttribute(app, field)
         \/ Participant_getAttribute(app, field)
         \/ Participant_attributesExists(app, field)
         \/ Participant_deleteAttribute(app, field)
AttrSpec == AttrInit /\ [][AttrNext]_vars

\* The identifier generator, on each of its paths.
GeneratorInit == \E m \in {"ts_sync", "ts_async"} : Constructed(WorkingEnv, m)
GeneratorNext ==
    \/ generate_uuidv7
    \/ generate_uuidv7_fallback
    \/ Participant_generate_browser_id_uuidv4
GeneratorSpec == GeneratorInit /\ [][GeneratorNext]_vars

\* generate_uuidv7 alone, on its two paths.
Uuidv7Next == generate_uuidv7 \/ generate_uuidv7_fallback
Uuidv7Spec == GeneratorInit /\ [][Uuidv7Next]_vars

\* Only get_id is called, by one caller or by two at once; nothing deletes.
GetIdNext ==
    \E c \in Procs :
         \/ Participant_browser_id(c)
         \/ AsyncParticipant_get_browser_id(c)
         \/ AsyncParticipant_validated(c)
         \/ getBrowserId(c)
         \/ generateBrowserId(c)
         \/ generateBrowserId_validated(c)
         \/ generateBrowserId_timestamp(c)
GetIdSpec == Init /\ [][GetIdNext]_vars

\* Every awaited storage call returns: the continuation of a call suspended
\* at a storage await is run.
StorageReturns(c) ==
    WF_vars(generateBrowserId(c) \/ generateBrowserId_timestamp(c))
\* Every awaited validator invocation returns: a call does not wait for the
\* answer for ever.  This is the weak fairness of the continuation after the
\* validator's answer, with its enabling condition, the call being suspended
\* at that await, written out.
ValidatorReturns(c) ==
    \/ []<>(calls[c].pc # "validating")
    \/ []<><<AsyncParticipant_validated(c)
               \/ generateBrowserId_validated(c)>>_vars
GetIdResumed == \A c \in Procs : StorageReturns(c) /\ ValidatorReturns(c)
GetIdFairSpec == GetIdSpec /\ GetIdResumed

\* get_id with an identifier generator that may throw, every call awaited
\* before the next.
ThrowingEnv == [WorkingEnv EXCEPT !.throwing = TRUE, !.solo = TRUE]
ThrowInit == \E m \in Impls : Constructed(ThrowingEnv, m)
ThrowSpec == ThrowInit /\ [][GetIdNext]_vars

\* The TypeScript classes with the version getter among the calls, every
\* call awaited before the next.
VersionInit == \E m \in {"ts_sync", "ts_async"} : Constructed(SoloEnv, m)
VersionNext ==
    \E c \in Procs :
         \/ Participant_browser_id(c)
         \/ Participant_browser_id_version(c)
         \/ Participant_delete_browser_id(c)
         \/ AsyncParticipant_get_browser_id(c)
         \/ AsyncParticipant_get_browser_id_version(c)
         \/ AsyncParticipant_validated(c)
         \/ AsyncParticipant_delete_browser_id(c)
VersionSpec == VersionInit /\ [][VersionNext]_vars

\* The attribute store of one participant on a storage whose writes may
\* throw and in which other code of the page leaves an item that is not JSON
\* under an attribute key.
RawItem == Str(<<"r", "a", "w">>)
ForeignWrite(app, field) ==
    /\ ~AnyInFlight
    /\ AttrKey(app, field) \notin DOMAIN storage
    /\ storage' = setItem(storage, AttrKey(app, field), RawItem)
    /\ UNCHANGED <<impl, hasValidator, now, calls, ncalls, handed,
                   overlapRejects, lastDone, lastDelete, env, attrVars>>
AttrFailInit == \E m \in Impls : Constructed(FailingEnv, m) /\ ~hasValidator
AttrFailNext ==
    \E app \in {<<"a">>}, field \in FieldNames :
         \/ Participant_set_attribute(app, field)
         \/ Participant_get_attribute(app, field)
         \/ Participant_attributes_exists(app, field)
         \/ Participant_delete_attribute(app, field)
         \/ Participant_setAttribute(app, field)
         \/ Participant_getAttribute(app, field)
         \/ Participant_attributesExists(app, field)
         \/ Participant_deleteAttribute(app, field)
         \/ ForeignWrite(app, field)
AttrFailSpec == AttrFailInit /\ [][AttrFailNext]_vars

\* Participants constructed with the default or with a custom prefix: the
\* identifier is created and attributes are set, every call awaited before
\* the next, no validation function.
Prefixes == {DefaultPrefix, <<"custom_prefix">>}
PrefixInit ==
    \E m \in Impls, p \in Prefixes :
        Constructed([SoloEnv EXCEPT !.prefix = p], m) /\ ~hasValidator
PrefixNext ==
    \/ \E c \in Procs :
         \/ Participant_browser_id(c)
         \/ AsyncParticipant_get_browser_id(c)
         \/ getBrowserId(c)
         \/ generateBrowserId(c)
         \/ generateBrowserId_timestamp(c)
    \/ \E app \in AppNames, field \in {<<"c">>} :
         \/ Participant_set_attribute(app, field)
         \/ Participant_setAttribute(app, field)
PrefixSpec == PrefixInit /\ [][PrefixNext]_vars

\* One participant that uses the identity operations and the attribute
\* operations on one storage, every call awaited before the next, with no
\* validation function; its
\* application name may be empty, and its fields are named like the keys of
\* the identity record.
IdentityLikeNames ==
    { [app |-> << >>, field |-> <<"browser_id">>],
      [app |-> <<"a">>, field |-> <<"created_at">>] }
MixedInit == \E m \in Impls : Constructed(SoloEnv, m) /\ ~hasValidator
MixedNext ==
    \/ \E c \in Procs :
         \/ Participant_browser_id(c)
         \/ Participant_delete_browser_id(c)
         \/ AsyncParticipant_get_browser_id(c)
         \/ AsyncParticipant_delete_browser_id(c)
         \/ getBrowserId(c)
         \/ generateBrowserId(c)
         \/ generateBrowserId_timestamp(c)
         \/ deleteBrowserId(c)
         \/ deleteBrowserId_removeCreatedAt(c)
         \/ deleteBrowserId_removeUpdatedAt(c)
    \/ \E n \in IdentityLikeNames :
         \/ Participant_set_attribute(n.app, n.field)
         \/ Participant_delete_attribute(n.app, n.field)
         \/ Participant_setAttribute(n.app, n.field)
         \/ Participant_deleteAttribute(n.app, n.field)
MixedSpec == MixedInit /\ [][MixedNext]_vars

\* Server-side rendering: no window, the constructors set this.storage = null.
\* The TypeScript classes only.
NoStorageEnv == [WorkingEnv EXCEPT !.available = FALSE, !.solo = TRUE]
NoStorageInit == \E m \in {"ts_sync", "ts_async"} : Constructed(NoStorageEnv, m)
NoStorageNext ==
    \/ \E c \in Procs :
         \/ Participant_browser_id(c)
         \/ Participant_delete_browser_id(c)
         \/ AsyncParticipant_get_browser_id(c)
         \/ AsyncParticipant_validated(c)
         \/ AsyncParticipant_delete_browser_id(c)
         \/ Participant_created_at(c)
         \/ Participant_updated_at(c)
         \/ Participant_browser_id_exists(c)
    \/ \E app \in AppNames, field \in FieldNames :
         \/ Participant_set_attribute(app, field)
         \/ Participant_get_attribute(app, field)
         \/ Participant_attributes_exists(app, field)
         \/ Participant_delete_attribute(app, field)
NoStorageSpec == NoStorageInit /\ [][NoStorageNext]_vars

\* localStorage.removeItem('participants_id.browser_id') done by the page, not
\* by the library: the identifier key vanishes, the timestamps stay.
BrowserIdVanishes ==
    /\ ~AnyInFlight
    /\ KeyBrowserId \in DOMAIN storage
    /\ storage' = removeItem(storage, KeyBrowserId)
    /\ handed' = {}
    /\ lastDone' = NoSlot
    /\ lastDelete' = [kind |-> "vanished",
                       id |-> storage[KeyBrowserId],
                       created |-> getItem(storage, KeyCreatedAt)]
    /\ UNCHANGED <<impl, hasValidator, now, calls, ncalls, overlapRejects, env,
                   attrVars>>

VanishNext == Next \/ BrowserIdVanishes

VanishSpec == Init /\ [][VanishNext]_vars

\* ================================================================== claims
Returned(c) == calls[c].pc = "done"
ReturnedId(c) == Returned(c) /\ calls[c].op = "get_id"
Failure(v) == v \in {Null, Exception}

\* C1, as stated: once get_id has returned an identifier, every get_id that
\* begins later, with no delete_id in between, returns that same identifier.
C1_EveryLaterGetSame ==
    \A c \in Procs :
        ReturnedId(c) =>
            \A h \in calls[c].seen : calls[c].result = h.id

\* C1, amended: once a get_id that no other call overlapped has returned an
\* identifier, every get_id that begins later, with no delete_id in between,
\* returns that same identifier and finds it in storage.
C1_LaterGetSameAsSoloReturn ==
    \A c \in Procs :
        ReturnedId(c) =>
            \A h \in calls[c].seen :
                h.solo => /\ calls[c].result = h.id
                          /\ calls[c].outcome = "hit"

C1_Witness ==
    \E c \in Procs :
        /\ ReturnedId(c)
        /\ calls[c].outcome = "hit"
        /\ \E h \in calls[c].seen : h.solo /\ calls[c].result = h.id
        /\ storage[KeyBrowserId] = calls[c].result

\* C2, as stated: in every interleaving, a value stored at browser_id is
\* never replaced by a different one (it changes only by being removed).
C2_NeverOverwritten ==
    [][(KeyBrowserId \in DOMAIN storage /\ KeyBrowserId \in DOMAIN storage')
          => (storage'[KeyBrowserId] = storage[KeyBrowserId])]_vars

\* C2, amended: a stored identifier is replaced by a generation only in a
\* get_id call that overlapped another call (both missed, the last write
\* wins); a call that runs alone never overwrites a stored identifier.
C2_OverwrittenOnlyInOverlap ==
    \A c \in Procs :
        /\ calls[c].overwrote => calls[c].overlapped /\ calls[c].id = Null
        /\ calls[c].wrote # Null /\ ~calls[c].overlapped =>
              /\ calls[c].startEmpty \/ KeyBrowserId \notin DOMAIN storage
                    \/ storage[KeyBrowserId] = calls[c].wrote
              /\ ~calls[c].overwrote

C2_Witness ==
    \E c \in Procs :
        /\ lastDone = c
        /\ calls[c].overwrote
        /\ calls[c].overlapped
        /\ storage[KeyBrowserId] = calls[c].result
        /\ \E h \in handed : h.id # calls[c].result

\* C3: a get_id call that finds a stored identifier returns exactly that
\* identifier, and in that call the generator and the validation function are
\* never called and nothing is written to storage.
C3_StoredIdReturnedUntouched ==
    \A c \in Procs :
        ReturnedId(c) /\ calls[c].id # Null =>
            /\ calls[c].outcome = "hit"
            /\ calls[c].result = calls[c].id
            /\ calls[c].gens = 0
            /\ calls[c].vcalls = 0
            /\ calls[c].wrote = Null
            /\ calls[c].wroteTs = "none"

C3_Witness ==
    \E c \in Procs :
        /\ ReturnedId(c)
        /\ hasValidator
        /\ IsUuid(calls[c].id)
        /\ calls[c].result = storage[KeyBrowserId]

\* C4: with a validation function that keeps rejecting, a generation makes
\* exactly MAX_RETRY_VALIDATION attempts, one generated identifier and one
\* validation each, and then reports failure; there is never an 11th attempt.
C4_ExactlyTenAttempts ==
    \A c \in Procs :
        /\ calls[c].gens <= MAX_RETRY_VALIDATION
        /\ calls[c].vcalls <= MAX_RETRY_VALIDATION
        /\ calls[c].rejects = MAX_RETRY_VALIDATION =>
              Returned(c) /\ calls[c].outcome = "exhausted"
        /\ calls[c].outcome = "exhausted" =>
              /\ calls[c].gens = MAX_RETRY_VALIDATION
              /\ calls[c].vcalls = MAX_RETRY_VALIDATION
              /\ calls[c].rejects = MAX_RETRY_VALIDATION
              /\ Failure(calls[c].result)
              /\ calls[c].wrote = Null

C4_Witness ==
    \E c \in Procs :
        /\ ReturnedId(c)
        /\ calls[c].outcome = "exhausted"
        /\ calls[c].vcalls = MAX_RETRY_VALIDATION

\* C5: when the validation function rejects the first k candidates (k < 10)
\* and accepts the next, it is called exactly k+1 times and the call returns
\* and persists the (k+1)-th generated identifier.
C5_AcceptedAfterRejections ==
    \A c \in Procs :
        /\ ReturnedId(c) /\ calls[c].outcome = "generated" /\ hasValidator =>
              /\ calls[c].rejects < MAX_RETRY_VALIDATION
              /\ calls[c].vcalls = calls[c].rejects + 1
              /\ calls[c].gens = calls[c].rejects + 1
              /\ calls[c].result = calls[c].newId
              /\ calls[c].wrote = calls[c].newId
        /\ ReturnedId(c) /\ calls[c].id = Null
              /\ calls[c].rejects < MAX_RETRY_VALIDATION =>
              calls[c].outcome = "generated"

C5_Witness ==
    \E c \in Procs :
        /\ ReturnedId(c)
        /\ calls[c].outcome = "generated"
        /\ calls[c].rejects = 2
        /\ calls[c].vcalls = 3
        /\ storage[KeyBrowserId] = calls[c].result

\* C6: when the retry bound is exhausted the failure is surfaced as an
\* explicit error of its own, never as the null result that other outcomes
\* also produce.
C6_ExhaustionSurfacedExplicitly ==
    \A c \in Procs :
        calls[c].outcome = "exhausted" => calls[c].result = Exception

\* C7: with a validation function configured, an identifier is written to
\* storage only after the validation function was called on it and accepted
\* it: the validation comes after the generation and before the save.
C7_ValidatedBeforeSaved ==
    hasValidator =>
        \A c \in Procs :
            calls[c].wrote # Null =>
                /\ calls[c].wrote = calls[c].newId
                /\ calls[c].isValid
                /\ calls[c].vcalls = calls[c].gens
                /\ calls[c].vcalls = calls[c].rejects + 1

C7_Witness ==
    \E c \in Procs :
        /\ hasValidator
        /\ calls[c].rejects >= 1
        /\ IsUuid(calls[c].wrote)
        /\ storage[KeyBrowserId] = calls[c].wrote

\* The call a state is the return of, when no other call was under way
\* between its entry and its return.
JustReturnedAlone(c) ==
    /\ lastDone = c
    /\ ReturnedId(c)
    /\ ~calls[c].overlapped

\* C8: after the first successful generation on storage that holds none of
\* the identity keys (a get_id that ran alone), browser_id holds the returned
\* identifier, created_at holds the time of the generation and updated_at
\* is absent.
C8_FirstGenerationKeys ==
    \A c \in Procs :
        JustReturnedAlone(c) /\ calls[c].startEmpty
            /\ calls[c].outcome = "generated" =>
            /\ KeyBrowserId \in DOMAIN storage
            /\ storage[KeyBrowserId] = calls[c].result
            /\ KeyCreatedAt \in DOMAIN storage
            /\ storage[KeyCreatedAt] = calls[c].timestamp
            /\ KeyUpdatedAt \notin DOMAIN storage

C8_Witness ==
    \E c \in Procs :
        /\ JustReturnedAlone(c)
        /\ calls[c].startEmpty
        /\ calls[c].outcome = "generated"
        /\ IsUuid(storage[KeyBrowserId])

\* The get_id call c is the first call after a delete_id that ran alone and
\* removed a stored identifier.
FirstAfterDelete(c) ==
    /\ JustReturnedAlone(c)
    /\ calls[c].afterDelete.kind = "delete"
    /\ IsUuid(calls[c].afterDelete.id)

C10_RegenerationKeepsCreatedAt ==
    \A c \in Procs :
        lastDone = c /\ calls[c].wroteTs # "none"
            /\ calls[c].createdWas # Null =>
            /\ calls[c].wroteTs = "updated_at"
            /\ KeyUpdatedAt \in DOMAIN storage
            /\ storage[KeyUpdatedAt] = calls[c].timestamp
            /\ calls[c].timestamp.ms >= calls[c].newId.ts
            /\ calls[c].timestamp.ms <= now
            /\ KeyCreatedAt \in DOMAIN storage
            /\ storage[KeyCreatedAt] = calls[c].createdWas

C10_Witness ==
    \E c \in Procs :
        /\ JustReturnedAlone(c)
        /\ calls[c].afterDelete.kind = "vanished"
        /\ calls[c].outcome = "generated"
        /\ calls[c].createdWas = calls[c].afterDelete.created
        /\ storage[KeyUpdatedAt].ms > storage[KeyCreatedAt].ms

\* C11, as stated: created_at is fixed at the first creation, and updated_at
\* is set on every later re-creation, the re-creation after delete_id
\* included.
C11_UpdatedAtOnEveryRecreation ==
    \A c \in Procs :
        FirstAfterDelete(c) /\ calls[c].outcome = "generated" =>
            /\ KeyUpdatedAt \in DOMAIN storage
            /\ getItem(storage, KeyCreatedAt) = calls[c].afterDelete.created

\* C11, amended: a re-creation that finds created_at stored (browser_id went
\* away without delete_id) keeps created_at and sets updated_at to the time
\* of the re-creation; a creation that finds no created_at - the first one,
\* and every re-creation after delete_id, which removes both timestamps -
\* sets created_at to its own time and writes no updated_at.
C11_TimestampsByRecreationKind ==
    \A c \in Procs :
        JustReturnedAlone(c) /\ calls[c].outcome = "generated" =>
            /\ calls[c].createdWas # Null =>
                  /\ getItem(storage, KeyCreatedAt) = calls[c].createdWas
                  /\ getItem(storage, KeyUpdatedAt) = calls[c].timestamp
            /\ calls[c].createdWas = Null =>
                  /\ getItem(storage, KeyCreatedAt) = calls[c].timestamp
                  /\ calls[c].wroteTs = "created_at"
            /\ calls[c].afterDelete.kind = "delete" =>
                  /\ calls[c].createdWas = Null
                  /\ KeyUpdatedAt \notin DOMAIN storage
            /\ calls[c].afterDelete.kind = "vanished"
                  /\ calls[c].afterDelete.created # Null =>
                  /\ calls[c].createdWas = calls[c].afterDelete.created
                  /\ KeyUpdatedAt \in DOMAIN storage

C11_Witness ==
    \E c \in Procs :
        /\ FirstAfterDelete(c)
        /\ calls[c].outcome = "generated"
        /\ calls[c].afterDelete.created # Null
        /\ calls[c].wroteTs = "created_at"
        /\ getItem(storage, KeyCreatedAt) # calls[c].afterDelete.created
        /\ KeyUpdatedAt \notin DOMAIN storage

\* C12: after a successful delete_id (one that ran alone), browser_id,
\* created_at and updated_at are all absent and id_exists answers false, and
\* this stays so until the next generation writes.
C12_DeleteRemovesAllThree ==
    /\ lastDelete.kind = "delete" =>
          /\ DOMAIN storage \cap IdentityKeys = {}
          /\ ~IdExists(storage)
    /\ \A c \in Procs :
          InFlight(c) /\ ~calls[c].overlapped /\ calls[c].wrote = Null
             /\ calls[c].afterDelete.kind = "delete" =>
             /\ DOMAIN storage \cap IdentityKeys = {}
             /\ ~IdExists(storage)

C12_Witness ==
    /\ lastDelete.kind = "delete"
    /\ IsUuid(lastDelete.id)
    /\ lastDelete.created # Null
    /\ \E c \in Procs : lastDone = c /\ calls[c].outcome = "deleted"
    /\ ~IdExists(storage)

\* What a delete_id under way has removed so far is nothing or everything.
AllOrNothing(d) ==
    \/ DOMAIN storage \cap IdentityKeys = {}
    \/ /\ getItem(storage, KeyBrowserId) = calls[d].removed.id
       /\ getItem(storage, KeyCreatedAt) = calls[d].removed.created

\* C13: delete_id is atomic for its callers: at no point where another API
\* call can run has a delete_id removed some but not all of the identity
\* keys, and when delete_id returns no part of the record is left.
C13_DeleteIsAtomic ==
    \A d \in Procs :
        /\ calls[d].op = "delete_id" /\ InFlight(d) /\ ~calls[d].overlapped =>
              AllOrNothing(d)
        /\ calls[d].op = "delete_id" /\ lastDone = d =>
              DOMAIN storage \cap IdentityKeys \in {{}, IdentityKeys}

\* C14: when a storage write fails during a generation, get_id reports
\* failure and the record is not partially committed: browser_id is not
\* left stored without its timestamp, nor the timestamp without browser_id.
C14_NoPartialCommit ==
    \A c \in Procs :
        lastDone = c /\ calls[c].op = "get_id" /\ calls[c].startEmpty
            /\ calls[c].writeFailed =>
            /\ Failure(calls[c].result)
            /\ (KeyBrowserId \in DOMAIN storage) = (KeyCreatedAt \in DOMAIN storage)

\* C15: getBrowserId(generateIfNotExists: false) on an absent record returns
\* the empty string, calls neither the generator nor the validator and leaves
\* the storage as it was; the get_id that follows generates an identifier,
\* stores it and returns it (unless the validator rejects all ten candidates).
C15_PeekThenGenerate ==
    /\ [](\A c \in Procs :
            /\ calls[c].op = "peek_id" => Returned(c)
            /\ calls[c].op = "peek_id" /\ calls[c].id = Null =>
                  /\ calls[c].result = EmptyString
                  /\ calls[c].gens = 0 /\ calls[c].vcalls = 0
                  /\ calls[c].wrote = Null /\ calls[c].wroteTs = "none"
            /\ ReturnedId(c) /\ calls[c].afterDelete.kind = "peeked"
                  /\ calls[c].rejects < MAX_RETRY_VALIDATION =>
                  /\ calls[c].outcome = "generated"
                  /\ IsUuid(calls[c].result)
                  /\ calls[c].gens >= 1
                  /\ calls[c].wrote = calls[c].result)
    /\ [][\A c \in Procs :
            (calls'[c].op = "peek_id" /\ ncalls' = ncalls + 1
                /\ calls'[c].id = Null) => storage' = storage]_vars

C15_Witness ==
    \E c \in Procs :
        /\ ReturnedId(c)
        /\ calls[c].afterDelete.kind = "peeked"
        /\ calls[c].outcome = "generated"
        /\ storage[KeyBrowserId] = calls[c].result

\* What a getter of this implementation returns for a key that is not stored.
Absent == IF impl = "dart" THEN EmptyString ELSE Null
GetterKey(op) == IF op = "get_created_at" THEN KeyCreatedAt
                 ELSE IF op = "get_updated_at" THEN KeyUpdatedAt
                 ELSE KeyBrowserId

\* C16: get_created_at, get_updated_at and id_exists are pure reads: called in
\* any state (also while a get_id or delete_id is suspended) they leave every
\* storage key as it was, never generate or validate, and return absent
\* (false for id_exists) when their key is not stored, the stored value (true)
\* when it is.
C16_GettersArePureReads ==
    /\ [](\A c \in Procs :
            calls[c].op \in ReadOps =>
              /\ Returned(c)
              /\ calls[c].gens = 0 /\ calls[c].vcalls = 0
              /\ calls[c].wrote = Null /\ calls[c].wroteTs = "none"
              /\ lastDone = c =>
                    LET k == GetterKey(calls[c].op)
                    IN calls[c].result =
                         IF calls[c].op = "id_exists"
                         THEN Bool(k \in DOMAIN storage)
                         ELSE IF k \in DOMAIN storage THEN storage[k]
                         ELSE Absent)
    /\ [][\A c \in Procs :
            (calls'[c].op \in ReadOps /\ lastDone' = c /\ ncalls' = ncalls + 1)
                => storage' = storage]_vars

C16_Witness ==
    \E c \in Procs :
        /\ lastDone = c
        /\ calls[c].op = "get_updated_at"
        /\ calls[c].result = Absent
        /\ KeyBrowserId \in DOMAIN storage
        /\ \E d \in Procs : InFlight(d)

\* C17: when the storage is unavailable, every read including the identifier
\* getter returns null (false for id_exists), every write is a no-op, no
\* validator is invoked, and no operation throws.
C17_UnavailableStorageReadsNull ==
    /\ storage = EmptyStorage
    /\ attrCall.last.op = "get" =>
          attrCall.last.result = attrCall.last.defaultValue
    /\ attrCall.last.op = "exists" => attrCall.last.result = Bool(FALSE)
    /\ \A c \in Procs :
          /\ calls[c].vcalls = 0
          /\ Returned(c) => calls[c].result \in {Null, Bool(FALSE)}

\* The caller of the attribute call made last, and what it wrote last there.
LastPair == <<attrCall.last.app, attrCall.last.field>>
LastKey == AttrKey(attrCall.last.app, attrCall.last.field)

\* C18: two participants with the same prefix and different application names
\* never collide: after any sequence of attribute operations, a participant
\* that reads a field gets the value it wrote there last itself (checked for
\* string values, which every implementation stores and reads back as they are).
C18_AttributesIsolated ==
    attrCall.last.op = "get" /\ LastPair \in DOMAIN attrByField
        /\ attrByField[LastPair].kind = "string" =>
        attrCall.last.result = attrByField[LastPair]

\* C19: set_attribute(field, value) followed immediately by get_attribute(field)
\* returns a value equal to value, for strings, numbers, booleans and
\* structured values, in every implementation.
C19_RoundTrip ==
    /\ attrCall.last.op = "get" /\ attrCall.prev.op = "set"
    /\ attrCall.prev.app = attrCall.last.app
    /\ attrCall.prev.field = attrCall.last.field
    /\ attrCall.prev.value.kind \in {"string", "number", "bool", "list", "map"}
    => attrCall.last.result = attrCall.prev.value

\* What get_attribute makes of a stored item: the TypeScript classes parse it
\* as JSON, the Dart class returns it as it is.
StoredValue(item) == IF impl = "dart" THEN item ELSE JSON_parse(item.chars)

\* C20: get_attribute(field, default) returns default whenever the key was
\* never set or has been deleted, and the stored value, whatever the default,
\* whenever the key is present; a key that was set and not deleted is present
\* (in Dart unless it was set to null, which removes it).
C20_DefaultOnlyWhenAbsent ==
    attrCall.last.op = "get" =>
        /\ LastKey \notin DOMAIN attrByKey =>
              /\ attrCall.last.result = attrCall.last.defaultValue
              /\ LastKey \notin DOMAIN storage
        /\ LastKey \in DOMAIN storage =>
              attrCall.last.result = StoredValue(storage[LastKey])
        /\ LastKey \in DOMAIN attrByKey =>
              \/ LastKey \in DOMAIN storage
              \/ impl = "dart" /\ attrByKey[LastKey] = Null

C20_Witness ==
    /\ attrCall.last.op = "get"
    /\ attrCall.prev.op = "delete"
    /\ attrCall.prev.app = attrCall.last.app
    /\ attrCall.prev.field = attrCall.last.field
    /\ attrCall.last.result = attrCall.last.defaultValue
    /\ storage # EmptyStorage

\* The attribute call made last follows one of kind op on the same field of
\* the same participant.
FollowsOwn(op) ==
    /\ attrCall.prev.op = op
    /\ attrCall.prev.app = attrCall.last.app
    /\ attrCall.prev.field = attrCall.last.field

\* C21: after delete_attribute(field), get_attribute(field) returns the
\* default and attribute_exists(field) returns false; delete_attribute of a
\* key that is not stored is not an error and leaves the storage as it was.
C21_DeleteAttribute ==
    /\ [](/\ attrCall.last.op = "get" /\ FollowsOwn("delete") =>
                attrCall.last.result = attrCall.last.defaultValue
          /\ attrCall.last.op = "exists" /\ FollowsOwn("delete") =>
                attrCall.last.result = Bool(FALSE)
          /\ attrCall.last.op = "delete" =>
                /\ attrCall.last.result = Null
                /\ LastKey \notin DOMAIN storage)
    /\ [][(/\ attrCall'.last.op = "delete"
           /\ ncalls' = ncalls + 1
           /\ AttrKey(attrCall'.last.app, attrCall'.last.field)
                  \notin DOMAIN storage)
          => storage' = storage]_vars

C21_Witness ==
    /\ attrCall.last.op = "exists"
    /\ FollowsOwn("delete")
    /\ attrCall.last.result = Bool(FALSE)
    /\ storage # EmptyStorage

\* The keys whose presence or value a step changes.
ChangedKeys ==
    {k \in DOMAIN storage \cup DOMAIN storage' :
        \/ k \notin DOMAIN storage
        \/ k \notin DOMAIN storage'
        \/ storage'[k] # storage[k]}

C23_SetFailureReported ==
    attrCall.last.op = "set_failed" => attrCall.last.result = Exception

\* What the deserialization of a stored item gives: the parsed value of a
\* JSON text, and the item itself when it is no JSON text.
Deserialized(item) ==
    IF item.kind # "string" THEN item
    ELSE LET parsed == JSON_parse(item.chars)
         IN IF parsed = SyntaxError THEN item ELSE parsed

\* C24: get_attribute on a present key returns the deserialized stored value,
\* and the raw stored value when the deserialization fails; it neither fails
\* nor returns the default.
C24_DeserializedOrRaw ==
    [][(/\ attrCall'.last.op = "get"
        /\ ncalls' = ncalls + 1
        /\ AttrKey(attrCall'.last.app, attrCall'.last.field) \in DOMAIN storage)
       => attrCall'.last.result =
            Deserialized(storage[AttrKey(attrCall'.last.app,
                                         attrCall'.last.field)])]_vars

\* The identifiers that get_id calls overlapped by another call have returned,
\* c's own apart.
RacersOf(c) == {h.id : h \in {g \in handed : ~g.solo}} \ {calls[c].result}

\* Call c is the second of two concurrent get_id calls on an absent record
\* to return; both generated an identifier and no call is under way.
BothGenerated(c) ==
    /\ lastDone = c
    /\ ReturnedId(c)
    /\ calls[c].outcome = "generated"
    /\ calls[c].overlapped
    /\ calls[c].startEmpty
    /\ calls[c].seen = {}
    /\ RacersOf(c) # {}
    /\ ~AnyInFlight

\* C25: two concurrent get_id calls on an absent record may both generate and
\* persist an identifier (a write replaces what the other call stored); once
\* both have returned, the stored identifier is the one written last, and a
\* get_id that begins afterwards returns the stored identifier.
C25_LastWriteWins ==
    /\ [](\A c \in Procs :
            /\ BothGenerated(c) =>
                  /\ KeyBrowserId \in DOMAIN storage
                  /\ IF calls[c].overwrote
                     THEN storage[KeyBrowserId] = calls[c].wrote
                     ELSE storage[KeyBrowserId] \in RacersOf(c)
            /\ (/\ lastDone = c /\ ReturnedId(c) /\ ~calls[c].overlapped
                 /\ calls[c].seen # {}) =>
                  /\ calls[c].outcome = "hit"
                  /\ calls[c].result = storage[KeyBrowserId]
                  /\ calls[c].gens = 0)
    /\ [][\A c \in Procs :
            calls'[c].wrote # Null /\ calls'[c].wrote # calls[c].wrote =>
                storage'[KeyBrowserId] = calls'[c].wrote]_vars

C25_Witness ==
    \E c \in Procs :
        /\ lastDone = c /\ ReturnedId(c) /\ ~calls[c].overlapped
        /\ calls[c].outcome = "hit"
        /\ calls[c].result = storage[KeyBrowserId]
        /\ \E h \in calls[c].seen : ~h.solo /\ h.id # calls[c].result

\* C26: every get_id call eventually completes, with an identifier or with a
\* failure, provided each validator invocation and each storage call returns;
\* the retry loop, the only loop, runs at most MAX_RETRY_VALIDATION iterations.
C26_GetIdCompletes ==
    /\ \A c \in Procs : (InFlight(c) ~> Returned(c))
    /\ [](\A c \in Procs : calls[c].i <= MAX_RETRY_VALIDATION)

C26_Witness ==
    \E c \in Procs :
        /\ ReturnedId(c)
        /\ calls[c].overlapped
        /\ calls[c].i = MAX_RETRY_VALIDATION
        /\ Failure(calls[c].result)

\* The canonical text of a version 7 identifier: 36 characters, lowercase
\* hexadecimal in groups of 8-4-4-4-12, version 7, variant 8, 9, a or b.
CanonicalV7(text) ==
    /\ Len(text) = 36
    /\ \A i \in 1 .. 36 :
          IF i \in {9, 14, 19, 24} THEN text[i] = "-"
          ELSE \E d \in 1 .. 16 : text[i] = HexDigits[d]
    /\ text[15] = "7"
    /\ text[20] \in {"8", "9", "a", "b"}

\* C27: every identifier the generator produces, on the strong-random path
\* and on every fallback path, is a 36-character lowercase 8-4-4-4-12
\* hexadecimal string with version nibble 7 and variant nibble 8, 9, a or b.
C27_GeneratedIsCanonicalV7 == generated # <<>> => CanonicalV7(generated)

C30_VersionOfStoredRecord ==
    \A c \in Procs :
        Returned(c) /\ calls[c].op = "get_version" =>
            /\ calls[c].gens = 0
            /\ calls[c].wrote = Null
            /\ calls[c].wroteTs = "none"
            /\ calls[c].result = IF calls[c].id = Null THEN Null ELSE Num(7)

\* C31: created_at is set once per record: in every execution, concurrent
\* get_id calls included, a step that finds {prefix}.created_at stored and
\* leaves it stored leaves its value as it was; only the removal by delete_id
\* ends a value of created_at.
C31_CreatedAtSetOnce ==
    [][(KeyCreatedAt \in DOMAIN storage /\ KeyCreatedAt \in DOMAIN storage')
         => (storage'[KeyCreatedAt] = storage[KeyCreatedAt])]_vars

\* a get_id that generated while created_at was stored has returned: it wrote
\* updated_at with a later clock reading, and created_at is as it found it
C31_Witness ==
    \E c \in Procs :
        /\ ReturnedId(c)
        /\ calls[c].wroteTs = "updated_at"
        /\ calls[c].createdWas # Null
        /\ calls[c].timestamp # calls[c].createdWas
        /\ getItem(storage, KeyCreatedAt) = calls[c].createdWas
        /\ getItem(storage, KeyUpdatedAt) = calls[c].timestamp

\* Hexadecimal digit k (1 the highest, 12 the lowest) of a 48-bit number.
Nibble(t, k) ==
    LET limb == IF k <= 6 THEN t.hi ELSE t.lo
        shift == IF k <= 6 THEN 6 - k ELSE 12 - k
    IN (limb \div (16 ^ shift)) % 16
\* The k-th hexadecimal digit of an identifier's text, hyphens not counted.
HexAt(text, k) == text[IF k <= 8 THEN k ELSE k + 1]
\* a < b as JavaScript compares strings: by the first code unit that differs
\* ("-" before the digits, the digits before the lowercase letters)
CodeUnit(ch) ==
    IF ch = "-" THEN 0 ELSE CHOOSE d \in 1 .. 16 : HexDigits[d] = ch
StringLess(a, b) ==
    \E i \in 1 .. Len(a) :
        /\ i <= Len(b)
        /\ \A j \in 1 .. (i - 1) : a[j] = b[j]
        /\ CodeUnit(a[i]) < CodeUnit(b[i])
LaterClock(t, u) == u.hi > t.hi \/ (u.hi = t.hi /\ u.lo > t.lo)

\* C32: the first 12 hexadecimal digits of every identifier generate_uuidv7
\* returns are the clock reading in milliseconds, highest digit first, on the
\* Web Crypto path and on the Math.random path, for every reading below 2^48;
\* and an identifier generated at a strictly later reading than the one before
\* it compares greater as a string.
C32_TimestampPrefix ==
    /\ [](generated # <<>> =>
            \A k \in 1 .. 12 :
                HexAt(generated, k) = HexDigits[Nibble(generatedAt, k) + 1])
    /\ [][generated # <<>> /\ LaterClock(generatedAt, generatedAt')
            => StringLess(generated, generated')]_vars

\* the generator has returned an identifier for a reading whose highest
\* hexadecimal digit is zero: 0x019258123456
C32_Witness ==
    /\ generated # <<>>
    /\ generatedAt = [hi |-> 103000, lo |-> 1193046]
    /\ SubSeq(generated, 1, 13)
         = <<"0", "1", "9", "2", "5", "8", "1", "2", "-", "3", "4", "5", "6">>

\* A step leaves key k of the storage as it was.
Untouched(k) ==
    /\ k \in DOMAIN storage <=> k \in DOMAIN storage'
    /\ k \in DOMAIN storage => storage'[k] = storage[k]
\* A step of an attribute method; a step of get_id or delete_id.
AttributeStep == calls' = calls /\ ncalls' # ncalls
IdentityStep == calls' # calls

\* C33: on one prefix the attribute operations and the identity operations do
\* not touch each other's keys: set_attribute and delete_attribute leave
\* browser_id, created_at and updated_at as they were, for every application
\* name and field name, and get_id and delete_id leave every attribute key as
\* it was.
C33_DisjointKeys ==
    [][ /\ AttributeStep => \A k \in IdentityKeys : Untouched(k)
        /\ IdentityStep =>
             \A k \in (DOMAIN storage \cup DOMAIN storage') \ IdentityKeys :
                 Untouched(k) ]_vars

\* an attribute whose field is named browser_id was set, then the identifier
\* was created and deleted: the attribute is still stored
C33_Witness ==
    /\ lastDelete.kind = "delete"
    /\ IsUuid(lastDelete.id)
    /\ DOMAIN storage \cap IdentityKeys = {}
    /\ attrCall.last.op = "set"
    /\ attrCall.last.field = <<"browser_id">>
    /\ attrCall.last.value # Null
    /\ AttrKey(attrCall.last.app, <<"browser_id">>) \in DOMAIN storage

\* The identity keys stored after a generation by the web implementation and
\* by the mobile one, from the storage as it is.
TsGenerated(id, ts) == DOMAIN TsSave(storage, id, ts)
DartGenerated(id, ts) ==
    DOMAIN DartSaveTimestamp(setItem(storage, KeyBrowserId, id), ts)

\* C34: the web and the mobile implementation use the same key strings: from
\* every storage either reaches, with the same prefix, application name and
\* field, each method passes the same set of key strings to the storage in
\* both, and a generation leaves the same keys stored in both.
C34_SameKeyStrings ==
    /\ \A op \in MethodNames, n \in IdentityLikeNames, accepted \in BOOLEAN :
          TsKeysUsed(op, storage, n.app, n.field, accepted)
            = DartKeysUsed(op, storage, n.app, n.field, accepted)
    /\ \A r \in RandVals, t \in 0 .. MaxClock :
          TsGenerated(Uuid(t, r), Timestamp(t))
            = DartGenerated(Uuid(t, r), Timestamp(t))

\* the mobile implementation has created the identifier and set an
\* attribute: the keys it left are those the web implementation's generation
\* and set_attribute leave
C34_Witness ==
    /\ impl = "dart"
    /\ ~AnyInFlight
    /\ attrCall.last.op = "set"
    /\ attrCall.last.value = Num(1)
    /\ \E c \in Procs :
          /\ ReturnedId(c)
          /\ calls[c].outcome = "generated"
          /\ DOMAIN storage
               = DOMAIN TsSetAttribute(
                     TsSave(EmptyStorage, calls[c].result, calls[c].timestamp),
                     AttrKey(attrCall.last.app, attrCall.last.field), Num(1))

\* C35: a get_id that fails because the validation function rejected all 10
\* candidates leaves the storage as it was before the call: the call writes
\* none of browser_id, created_at, updated_at, the step in which it returns
\* changes nothing, and after a call that ran alone on an absent record the
\* record is still absent, so that a later get_id starts from there.
C35_ExhaustionWritesNothing ==
    /\ [](\A c \in Procs :
            ReturnedId(c) /\ calls[c].outcome = "exhausted" =>
                /\ calls[c].rejects = MAX_RETRY_VALIDATION
                /\ calls[c].wrote = Null
                /\ calls[c].wroteTs = "none"
                /\ calls[c].timestamp = Null
                /\ lastDone = c /\ ~calls[c].overlapped /\ calls[c].startEmpty =>
                      DOMAIN storage \cap IdentityKeys = {})
    /\ [][\A c \in Procs :
            /\ calls'[c].pc = "done"
            /\ calls'[c].outcome = "exhausted"
            /\ calls[c].pc # "done" \/ ncalls' # ncalls
            => storage' = storage]_vars

\* a get_id that ran alone on an absent record has returned after ten
\* rejections, and the record is absent
C35_Witness ==
    \E c \in Procs :
        /\ ReturnedId(c)
        /\ lastDone = c
        /\ calls[c].outcome = "exhausted"
        /\ calls[c].rejects = MAX_RETRY_VALIDATION
        /\ ~calls[c].overlapped
        /\ calls[c].startEmpty
        /\ DOMAIN storage \cap IdentityKeys = {}

\* C36: after any sequence of completed calls of get_id, delete_id and the
\* attribute methods, each awaited before the next, on a storage that starts
\* empty and never fails: updated_at is stored only if created_at is, and
\* browser_id is stored if and only if created_at is.
C36_RecordKeysTogether ==
    ~AnyInFlight =>
        /\ KeyUpdatedAt \in DOMAIN storage => KeyCreatedAt \in DOMAIN storage
        /\ KeyBrowserId \in DOMAIN storage <=> KeyCreatedAt \in DOMAIN storage

\* an identifier was created, deleted and created again, and the second
\* creation has returned: browser_id and created_at are stored
C36_Witness ==
    /\ ~AnyInFlight
    /\ \E c \in Procs :
          /\ ReturnedId(c)
          /\ calls[c].outcome = "generated"
          /\ calls[c].afterDelete.kind = "delete"
          /\ IsUuid(calls[c].afterDelete.id)
    /\ KeyBrowserId \in DOMAIN storage
    /\ KeyCreatedAt \in DOMAIN storage

\* C37 as stated: when two get_id calls race on the first creation of a
\* record and both persist, the first writer creates created_at and the
\* second writer, finding it, writes updated_at; after both have returned
\* updated_at is stored, and the stored identifier is the second writer's,
\* not the one returned to the first writer.  Call c is the writer of
\* updated_at.
C37_SecondWriterOverwrites ==
    \A c \in Procs :
        BothGenerated(c) =>
            /\ KeyUpdatedAt \in DOMAIN storage
            /\ calls[c].wroteTs = "updated_at"
            /\ calls[c].overwrote
            /\ storage[KeyBrowserId] = calls[c].wrote
            /\ storage[KeyBrowserId] \notin RacersOf(c)

\* C37, amended: when two get_id calls race on the first creation of a
\* record and both persist, the call that writes its timestamp first creates
\* created_at and the other, finding it, writes updated_at, so that
\* updated_at is stored after both have returned although nothing was deleted
\* and no record existed before; the stored identifier is the one written
\* last, and the other call's returned identifier is not the stored one.  In
\* AsyncParticipant the writer of updated_at is the one whose identifier
\* stays; in the Dart implementation it may be either.
C37_RaceLeavesUpdatedAt ==
    \A c \in Procs :
        BothGenerated(c) =>
            /\ KeyCreatedAt \in DOMAIN storage
            /\ KeyUpdatedAt \in DOMAIN storage
            /\ calls[c].afterDelete = NoDelete
            /\ calls[c].wroteTs = "updated_at"
            /\ calls[c].createdWas = storage[KeyCreatedAt]
            /\ IF calls[c].overwrote
               THEN /\ storage[KeyBrowserId] = calls[c].wrote
                    /\ storage[KeyBrowserId] \notin RacersOf(c)
               ELSE /\ storage[KeyBrowserId] \in RacersOf(c)
                    /\ storage[KeyBrowserId] # calls[c].result
            /\ impl = "ts_async" => calls[c].overwrote

\* two racing calls of the Dart implementation have returned; the one that
\* wrote updated_at is the one whose identifier was overwritten
C37_Witness ==
    \E c \in Procs :
        /\ BothGenerated(c)
        /\ impl = "dart"
        /\ calls[c].wroteTs = "updated_at"
        /\ ~calls[c].overwrote
        /\ storage[KeyBrowserId] # calls[c].result

\* C38: for a fixed prefix the mapping from (application_name, field) to the
\* storage key is injective, also for names that contain ".": a set_attribute
\* or delete_attribute of one (application, field) pair leaves the item that
\* every other pair reads as it was.
C38_KeyInjective ==
    [][AttributeStep /\ attrCall'.last.op \in {"set", "delete"} =>
         \A app \in AppNames, field \in FieldNames :
             <<app, field>> # <<attrCall'.last.app, attrCall'.last.field>> =>
                 getItem(storage', AttrKey(app, field))
                   = getItem(storage, AttrKey(app, field))]_vars

\* What the caller and the storage show of a call that has returned.
Observed(w, c) == [result |-> w.calls[c].result, storage |-> w.storage]
\* What a call made now, by a caller that awaits it, may show: of the
\* synchronous Participant, and of AsyncParticipant.
SyncOutcomes(op) ==
    {Observed(w, 1) : w \in IF op = "get_id"
                            THEN TsGetBrowserId(World, 1, FALSE)
                            ELSE TsGetBrowserIdVersion(World, 1, FALSE)}
AsyncOutcomes(op) ==
    {Observed(w, 1) : w \in AsyncToEnd(IF op = "get_id"
                                       THEN TsGetBrowserId(World, 1, TRUE)
                                       ELSE TsGetBrowserIdVersion(World, 1, TRUE),
                                       1)}

C40_SetNullRemoves ==
    /\ [](impl = "dart" /\ FollowsOwn("set") /\ attrCall.prev.value = Null =>
            /\ attrCall.last.op = "exists" => attrCall.last.result = Bool(FALSE)
            /\ attrCall.last.op = "get" =>
                  attrCall.last.result = attrCall.last.defaultValue)
    /\ [][(/\ impl = "dart"
           /\ AttributeStep
           /\ attrCall'.last.op = "set"
           /\ attrCall'.last.value = Null)
          => /\ AttrKey(attrCall'.last.app, attrCall'.last.field)
                   \notin DOMAIN storage'
             /\ storage' = DartDeleteAttribute(storage,
                              AttrKey(attrCall'.last.app, attrCall'.last.field))]_vars

\* the Dart participant set a value, set null for the same field and asked
\* for the field: it got the default
C40_Witness ==
    /\ impl = "dart"
    /\ ncalls = 3
    /\ attrCall.last.op = "get"
    /\ FollowsOwn("set")
    /\ attrCall.prev.value = Null
    /\ attrCall.last.result = attrCall.last.defaultValue
    /\ LastKey \notin DOMAIN storage

====
